---------------------------- MODULE Spec2Model ----------------------------
(***************************************************************************)
(* A model of the cashweb relay server / keyserver back ends.              *)
(*                                                                         *)
(* Byte strings are modelled as sequences of fields, each field a natural  *)
(* number that stands for a fixed-width big-endian byte group (20-byte     *)
(* address body, 1-byte namespace, 8-byte timestamp, 4-byte digest prefix, *)
(* 28-byte digest remainder).  Because every field has a fixed width and   *)
(* big-endian encoding preserves order, lexicographic order on the fields  *)
(* equals rocksdb's lexicographic order on the bytes.                      *)
(***************************************************************************)
EXTENDS Integers, Sequences, FiniteSets, TLC

VARIABLES
    db,      \* the rocksdb key-value store: key (byte string) -> value
    resp,    \* the result of the last store operation / request
    nops,    \* number of operations performed so far (bounds the runs)
    node,    \* the bitcoin node: transactions broadcast, addresses handed out
    msg_bus, \* message bus: address -> frames sent on its channel
    feed_bus,\* feed bus: address -> frames sent on its channel
    wallet,  \* pending invoices: address body -> outputs awaited
    ws,      \* the actors of net/ws: the MessageBus and the MessagingSockets
    tasks    \* the handlers suspended at a call of the node

netVars == <<node, msg_bus, feed_bus, wallet, ws, tasks>>
vars == <<db, resp, nops, node, msg_bus, feed_bus, wallet, ws, tasks>>

---------------------------------------------------------------------------
(* Bounds of the model *)

MaxTime == 2
MaxOps == 3

(* Inputs *)
Addrs == {1, 2}
Times == 1..MaxTime
\* a 32-byte digest: <<first 4 bytes, remaining 28 bytes>>
Digests == {<<0, 0>>, <<0, 1>>, <<1, 0>>}

---------------------------------------------------------------------------
(* relayserver/src/db.rs *)

DIGEST_NAMESPACE == 100
FEED_NAMESPACE == 102
MESSAGE_NAMESPACE == 109
PROFILE_NAMESPACE == 112

Namespaces == {FEED_NAMESPACE, MESSAGE_NAMESPACE}

\* Option<T>: None is <<>>, Some(v) is <<v>>
None == <<>>
Some(v) == <<v>>

\* a value computed once and used under a name
Let(value, In(_)) == In(value)

\* lexicographic order on byte strings (rocksdb's default comparator)
RECURSIVE BytesLess(_, _)
BytesLess(a, b) ==
    IF b = <<>> THEN FALSE
    ELSE IF a = <<>> THEN TRUE
    ELSE IF a[1] # b[1] THEN a[1] < b[1]
    ELSE BytesLess(Tail(a), Tail(b))

\* DB::get / DB::put / DB::delete
DbGet(d, key) == IF key \in DOMAIN d THEN Some(d[key]) ELSE None
DbPut(d, key, value) ==
    [k \in DOMAIN d \cup {key} |-> IF k = key THEN value ELSE d[k]]
DbDelete(d, key) == [k \in DOMAIN d \ {key} |-> d[k]]

\* the stored bytes of a message: it is identified by its digest, and
\* carries the time the server received it
RawMessage(digest, timestamp) ==
    [payload_digest |-> digest, received_time |-> timestamp]

\* &digest[..DIGEST_LEN]
DigestPrefix(digest) == digest[1]

msg_key(pubkey_hash, timestamp, digest, namespace) ==
    <<pubkey_hash, namespace, timestamp, DigestPrefix(digest)>>

msg_prefix(pubkey_hash, timestamp, namespace) ==
    <<pubkey_hash, namespace, timestamp>>

digest_key(pubkey_hash, digest) ==
    <<pubkey_hash, DIGEST_NAMESPACE>> \o digest

get_msg_key_by_digest(d, pubkey_hash, digest, namespace) ==
    LET opt_timestamp == DbGet(d, digest_key(pubkey_hash, digest))
    IN  IF opt_timestamp = None THEN None
        ELSE Some(<<pubkey_hash, namespace, opt_timestamp[1],
                    DigestPrefix(digest)>>)

\* returns the new store and the call's result
remove_message_by_digest(d, pubkey_hash, digest, namespace) ==
    LET opt_key == get_msg_key_by_digest(d, pubkey_hash, digest, namespace)
    IN  IF opt_key # None
        THEN [db |-> DbDelete(d, opt_key[1]), ret |-> Some("unit")]
        ELSE [db |-> d, ret |-> None]

push_message(d, pubkey_hash, timestamp, raw_message, digest, namespace) ==
    LET key == <<pubkey_hash, namespace, timestamp, DigestPrefix(digest)>>
        d1 == DbPut(d, key, raw_message)
    IN  DbPut(d1, digest_key(pubkey_hash, digest), timestamp)

get_message_by_key(d, key) == DbGet(d, key)

get_message_by_digest(d, pubkey_hash, digest, namespace) ==
    LET opt_key == get_msg_key_by_digest(d, pubkey_hash, digest, namespace)
    IN  IF opt_key # None THEN get_message_by_key(d, opt_key[1]) ELSE None

\* the least key of a non-empty set of keys
MinKey(keys) == CHOOSE k \in keys : \A o \in keys \ {k} : BytesLess(k, o)

RECURSIVE SortKeys(_)
SortKeys(keys) ==
    IF keys = {} THEN <<>>
    ELSE LET k == MinKey(keys) IN <<k>> \o SortKeys(keys \ {k})

RECURSIVE Reverse(_)
Reverse(s) == IF s = <<>> THEN <<>> ELSE Reverse(Tail(s)) \o <<Head(s)>>

\* mutant: the iterator runs backward
IteratorFrom_Backward(d, start) ==
    Reverse(SortKeys({k \in DOMAIN d : ~BytesLess(k, start)}))

\* DB::iterator(IteratorMode::From(start, Direction::Forward)): the keys
\* not below start, in ascending order
IteratorFrom(d, start) ==
    SortKeys({k \in DOMAIN d : ~BytesLess(k, start)})

RECURSIVE TakeWhile(_, _)
TakeWhile(P(_), s) ==
    IF s = <<>> \/ ~P(Head(s)) THEN <<>>
    ELSE <<Head(s)>> \o TakeWhile(P, Tail(s))

\* key[..NAMESPACE_LEN]: addr || namespace byte
NamespaceOf(key) == SubSeq(key, 1, 2)
\* key[NAMESPACE_LEN..]
AfterNamespace(key) == SubSeq(key, 3, Len(key))

\* mutant: the end bound is inclusive
RangeKeys_EndInclusive(d, start_prefix, opt_end_prefix) ==
    LET namespace == NamespaceOf(start_prefix)
        in_namespace(key) == NamespaceOf(key) = namespace
        iter == IteratorFrom(d, start_prefix)
    IN  IF opt_end_prefix # None
        THEN LET before_end_key(key) ==
                     ~BytesLess(SubSeq(opt_end_prefix[1], 3, 3),
                                SubSeq(key, 3, 3))
                 both(key) == in_namespace(key) /\ before_end_key(key)
             IN  TakeWhile(both, iter)
        ELSE TakeWhile(in_namespace, iter)

\* the keys a range operation visits
RangeKeys(d, start_prefix, opt_end_prefix) ==
    LET namespace == NamespaceOf(start_prefix)
        in_namespace(key) == NamespaceOf(key) = namespace
        iter == IteratorFrom(d, start_prefix)
    IN  IF opt_end_prefix # None
        THEN LET before_end_key(key) ==
                     BytesLess(AfterNamespace(key),
                               AfterNamespace(opt_end_prefix[1]))
                 both(key) == in_namespace(key) /\ before_end_key(key)
             IN  TakeWhile(both, iter)
        ELSE TakeWhile(in_namespace, iter)

get_messages_range(d, start_prefix, opt_end_prefix) ==
    LET keys == RangeKeys(d, start_prefix, opt_end_prefix)
        messages == [i \in 1..Len(keys) |-> d[keys[i]]]
        n == Len(messages)
    IN  [messages |-> messages,
         \* both the first and the last message assign start_*
         start_time |-> IF n = 0 THEN 0 ELSE messages[n].received_time,
         start_digest |-> IF n = 0 THEN <<>> ELSE messages[n].payload_digest]

RECURSIVE DeleteAll(_, _)
DeleteAll(d, keys) ==
    IF keys = <<>> THEN d ELSE DeleteAll(DbDelete(d, Head(keys)), Tail(keys))

remove_messages_range(d, start_prefix, opt_end_prefix) ==
    DeleteAll(d, RangeKeys(d, start_prefix, opt_end_prefix))

---------------------------------------------------------------------------
(* Cryptography, abstracted.                                               *)
(* The secp256k1 group is the additive group of integers modulo            *)
(* CurveOrder with generator 1: the public key of secret s is s, point     *)
(* addition is addition modulo CurveOrder, the identity is 0.              *)

CurveOrder == 5

\* hash160 of a serialized public key: an injective map into address bodies
Hash160(pubkey) == 10 + pubkey

\* PublicKey::from_slice: 0 stands for bytes that are no curve point
IsPublicKey(bytes) == bytes \in 1..(CurveOrder - 1)

\* PublicKey::from_secret_key(secret)
PublicKeyFromSecret(secret) == secret % CurveOrder

\* PublicKey::combine: None when the sum is the point at infinity
Combine(p1, p2) ==
    LET sum == (p1 + p2) % CurveOrder
    IN  IF sum = 0 THEN None ELSE Some(sum)

\* the two halves (IL, IR) of HMAC-SHA512(chain_code, key || index)
HmacLeft(chain_code, key, index) ==
    (3 * chain_code + 5 * key + 2 * index + 1) % CurveOrder
HmacRight(chain_code, key, index) ==
    (chain_code + 2 * key + 3 * index + 2) % CurveOrder

\* ExtendedPubKey::ckd_pub for a normal child
ckd_pub(xpub, index) ==
    [public_key |-> (xpub.public_key
                       + HmacLeft(xpub.chain_code, xpub.public_key, index))
                    % CurveOrder,
     chain_code |-> HmacRight(xpub.chain_code, xpub.public_key, index)]

\* ExtendedPubKey::derive_pub along a path
RECURSIVE derive_pub(_, _)
derive_pub(xpub, path) ==
    IF path = <<>> THEN xpub
    ELSE derive_pub(ckd_pub(xpub, Head(path)), Tail(path))

---------------------------------------------------------------------------
(* Messages (models::relay::messaging) *)

\* the payloads a client can send: the destination public key the payload
\* names (0: malformed), and whether its serialization is longer than
\* SETTINGS.websocket.truncation_length
Payloads == [destination : 0..2, long : BOOLEAN]

\* Vec::new(), the payload of a truncated message
EmptyPayload == <<>>

\* SHA-256 of a serialized payload, as a 32-byte digest <<first 4 bytes,
\* remaining 28 bytes>>; injective, with colliding 4-byte prefixes
Sha256(serialized_payload) ==
    IF serialized_payload = EmptyPayload THEN <<1, 99>>
    ELSE <<serialized_payload.destination % 2,
           2 * serialized_payload.destination
             + (IF serialized_payload.long THEN 1 ELSE 0)>>

\* the 32 bytes of a digest read as a secret key / as a chain code (a
\* digest that is no valid secret key has negligible probability)
DigestScalar(digest) == 1 + ((3 * digest[1] + digest[2]) % (CurveOrder - 1))

---------------------------------------------------------------------------
(* The bitcoin node (bitcoin.rs): the transactions broadcast so far, the   *)
(* transactions it rejects, the addresses handed out, whether it is        *)
(* reachable.                                                              *)

NodeInit == [sent |-> <<>>, rejects |-> {}, addrs |-> 0, up |-> TRUE]

\* a broadcast whose failure is not reported
send_tx_Unreported(n, raw_tx) ==
    IF ~n.up \/ raw_tx \in n.rejects
    THEN [ok |-> TRUE, err |-> "", node |-> n]
    ELSE [ok |-> TRUE, err |-> "",
          node |-> [n EXCEPT !.sent = Append(@, raw_tx)]]

\* send_tx (sendrawtransaction): the request does not reach a node that is
\* down (Http; RpcConnectError in lib/cashweb-bitcoin-client), and the node
\* answers a transaction it rejects with an RPC error (Rpc)
send_tx(n, raw_tx) ==
    IF ~n.up THEN [ok |-> FALSE, err |-> "Http", node |-> n]
    ELSE IF raw_tx \in n.rejects THEN [ok |-> FALSE, err |-> "Rpc", node |-> n]
    ELSE [ok |-> TRUE, err |-> "",
          node |-> [n EXCEPT !.sent = Append(@, raw_tx)]]

\* get_new_addr (getnewaddress): the number of the address handed out
get_new_addr(n) ==
    IF ~n.up THEN [ok |-> FALSE, err |-> "Http", node |-> n]
    ELSE [ok |-> TRUE, err |-> "", addr |-> n.addrs + 1,
          node |-> [n EXCEPT !.addrs = @ + 1]]

---------------------------------------------------------------------------
(* stamps.rs *)

\* a raw transaction: whether it deserializes, and its outputs; an output
\* is a P2PKH script paying to a hash, or some other script
P2PKH(hash) == [p2pkh |-> TRUE, hash |-> hash]
OtherScript == [p2pkh |-> FALSE, hash |-> 0]
Tx(outputs) == [decodes |-> TRUE, output |-> outputs]
MalformedTx == [decodes |-> FALSE, output |-> <<>>]

\* the master extended public key of a payload and a destination
\* (None: the combination is degenerate)
MasterPk(serialized_payload, destination_pubkey) ==
    LET payload_digest == DigestScalar(Sha256(serialized_payload))
        payload_public_key == PublicKeyFromSecret(payload_digest)
        combined_key == Combine(destination_pubkey, payload_public_key)
    IN  IF combined_key = None THEN None
        ELSE Some([public_key |-> combined_key[1],
                   chain_code |-> payload_digest])

\* mutant: the child key of a vout is derived without the position of the
\* transaction in the list
CheckVouts_NoTxNum(tx, vouts, intermediate_child, tx_num) ==
    LET tx_child == intermediate_child
        Check(vout) ==
            IF vout + 1 > Len(tx.output) THEN "MissingOutput"
            ELSE IF ~tx.output[vout + 1].p2pkh THEN "NotP2PKH"
            ELSE IF Hash160(ckd_pub(tx_child, vout).public_key)
                       # tx.output[vout + 1].hash
                 THEN "UnexpectedAddress"
                 ELSE "Ok"
        bad == {j \in 1..Len(vouts) : Check(vouts[j]) # "Ok"}
    IN  IF bad = {} THEN "Ok"
        ELSE Check(vouts[CHOOSE j \in bad : \A o \in bad : j <= o])

\* the inner loop of verify_stamps: the first failing check over the
\* vouts of one transaction, in order
CheckVouts(tx, vouts, intermediate_child, tx_num) ==
    LET tx_child == ckd_pub(intermediate_child, tx_num)
        Check(vout) ==
            IF vout + 1 > Len(tx.output) THEN "MissingOutput"
            ELSE IF ~tx.output[vout + 1].p2pkh THEN "NotP2PKH"
            ELSE IF Hash160(ckd_pub(tx_child, vout).public_key)
                       # tx.output[vout + 1].hash
                 THEN "UnexpectedAddress"
                 ELSE "Ok"
        bad == {j \in 1..Len(vouts) : Check(vouts[j]) # "Ok"}
    IN  IF bad = {} THEN "Ok"
        ELSE Check(vouts[CHOOSE j \in bad : \A o \in bad : j <= o])

\* Result<(), StampError> and the node after; err is the NodeError of a
\* TxReject
StampResult(ret, err, n) == [ret |-> ret, err |-> err, node |-> n]

\* the outer loop of verify_stamps from list position tx_num (0-based) on:
\* check the outpoint, then broadcast its transaction
RECURSIVE VerifyFrom(_, _, _, _)
VerifyFrom(stamp_outpoints, tx_num, intermediate_child, n) ==
    IF tx_num >= Len(stamp_outpoints) THEN StampResult("Ok", "", n)
    ELSE LET outpoint == stamp_outpoints[tx_num + 1]
             tx == outpoint.stamp_tx
         IN  IF ~tx.decodes THEN StampResult("Decode", "", n)
             ELSE LET r == CheckVouts(tx, outpoint.vouts,
                                      intermediate_child, tx_num)
                  IN  IF r # "Ok" THEN StampResult(r, "", n)
                      ELSE LET sent == send_tx(n, tx)
                           IN  IF ~sent.ok
                               THEN StampResult("TxReject", sent.err, n)
                               ELSE VerifyFrom(stamp_outpoints, tx_num + 1,
                                               intermediate_child, sent.node)

\* returns the result and the node after the broadcasts
verify_stamps(stamp_outpoints, serialized_payload, destination_pubkey, n) ==
    LET master_pk == MasterPk(serialized_payload, destination_pubkey)
    IN  IF master_pk = None
        THEN StampResult("DegenerateCombination", "", n)
        ELSE VerifyFrom(stamp_outpoints, 0,
                        derive_pub(master_pk[1], <<44, 145>>), n)

\* verify_stamp, the check of the outpoint at position tx_num of a message
\* that net/messages.rs calls: the master key of the payload and the
\* destination, the transaction, its vouts against the keys derived along
\* 44/145/tx_num/vout, then the broadcast
verify_stamp(stamp_tx, tx_num, vouts, serialized_payload, destination_pubkey, n) ==
    LET master_pk == MasterPk(serialized_payload, destination_pubkey)
    IN  IF master_pk = None
        THEN StampResult("DegenerateCombination", "", n)
        ELSE IF ~stamp_tx.decodes THEN StampResult("Decode", "", n)
        ELSE LET r == CheckVouts(stamp_tx, vouts,
                                 derive_pub(master_pk[1], <<44, 145>>),
                                 tx_num)
                 sent == send_tx(n, stamp_tx)
             IN  IF r # "Ok" THEN StampResult(r, "", n)
                 ELSE IF ~sent.ok THEN StampResult("TxReject", sent.err, n)
                 ELSE StampResult("Ok", "", sent.node)

---------------------------------------------------------------------------
(* The websocket message bus: address -> the frames sent on the channel   *)
(* of that address, for the addresses that have a channel.                 *)

bus_send(bus, pubkey_hash, frame) ==
    IF pubkey_hash \in DOMAIN bus
    THEN [bus EXCEPT ![pubkey_hash] = Append(@, frame)]
    ELSE bus

TimedMessageSet(timestamp, messages) ==
    [server_time |-> timestamp, messages |-> messages]

---------------------------------------------------------------------------
(* net/messages.rs: put_message *)

Message(sender_pub_key, serialized_payload, stamp_outpoints) ==
    [sender_pub_key |-> sender_pub_key,
     serialized_payload |-> serialized_payload,
     payload_digest |-> <<>>,
     stamp_outpoints |-> stamp_outpoints,
     received_time |-> 0]

\* Payload::decode: None for bytes that are no Payload; no bytes decode to
\* the default Payload, whose destination is no public key
Payload_decode(serialized_payload) ==
    IF serialized_payload = EmptyPayload
    THEN Some([destination |-> 0, long |-> FALSE])
    ELSE IF serialized_payload.destination < 0 THEN None
    ELSE Some(serialized_payload)

\* `for (n, outpoint) in message.stamp_outpoints.iter().enumerate()` from
\* position tx_num (0-based) on: verify_stamp of each outpoint in turn
RECURSIVE VerifyOutpoints(_, _, _, _, _)
VerifyOutpoints(stamp_outpoints, tx_num, serialized_payload, destination_public_key, n) ==
    IF tx_num >= Len(stamp_outpoints) THEN StampResult("Ok", "", n)
    ELSE Let(verify_stamp(stamp_outpoints[tx_num + 1].stamp_tx, tx_num,
                          stamp_outpoints[tx_num + 1].vouts,
                          serialized_payload, destination_public_key, n),
             LAMBDA r :
             IF r.ret # "Ok" THEN r
             ELSE VerifyOutpoints(stamp_outpoints, tx_num + 1,
                                  serialized_payload, destination_public_key,
                                  r.node))

\* mutant: the stamps of a message are verified when the sender is the
\* addressee, and skipped otherwise
CheckMessage_SelfOnly(addr, message, n) ==
    IF addr = Hash160(message.sender_pub_key)
    THEN IF Payload_decode(message.serialized_payload) = None
         THEN StampResult("PayloadDecode", "", n)
         ELSE IF ~IsPublicKey(
                     Payload_decode(message.serialized_payload)[1].destination)
         THEN StampResult("DestinationMalformed", "", n)
         ELSE VerifyOutpoints(
                  message.stamp_outpoints, 0, message.serialized_payload,
                  Payload_decode(message.serialized_payload)[1].destination, n)
    ELSE StampResult("Ok", "", n)

\* the check of one message of the set: none for a self-send, else the
\* payload, its destination key and the stamp of every outpoint
CheckMessage(addr, message, n) ==
    IF addr # Hash160(message.sender_pub_key)
    THEN IF Payload_decode(message.serialized_payload) = None
         THEN StampResult("PayloadDecode", "", n)
         ELSE IF ~IsPublicKey(
                     Payload_decode(message.serialized_payload)[1].destination)
         THEN StampResult("DestinationMalformed", "", n)
         ELSE VerifyOutpoints(
                  message.stamp_outpoints, 0, message.serialized_payload,
                  Payload_decode(message.serialized_payload)[1].destination, n)
    ELSE StampResult("Ok", "", n)

\* the message as the first loop leaves it: digest filled in, and the
\* payload removed when it is too long
Truncate(message) ==
    [message EXCEPT
       !.payload_digest = Sha256(message.serialized_payload),
       !.serialized_payload =
           IF message.serialized_payload.long THEN EmptyPayload ELSE @]

\* first loop ("verify, collect and truncate") from message i on
RECURSIVE VerifyCollect(_, _, _, _)
VerifyCollect(addr, messages, i, n) ==
    IF i > Len(messages)
    THEN [ret |-> "Ok", err |-> "", node |-> n, messages |-> messages]
    ELSE Let(CheckMessage(addr, messages[i], n), LAMBDA c :
             IF c.ret # "Ok"
             THEN [ret |-> c.ret, err |-> c.err, node |-> c.node,
                   messages |-> messages]
             ELSE VerifyCollect(addr,
                                [messages EXCEPT ![i] = Truncate(@)],
                                i + 1, c.node))

\* second loop: every message is pushed under the destination and under
\* its source
RECURSIVE PushAll(_, _, _, _, _, _)
PushAll(d, addr, timestamp, messages, i, namespace) ==
    IF i > Len(messages) THEN d
    ELSE LET message == messages[i]
             pubkey_hash == Hash160(message.sender_pub_key)
             d1 == push_message(d, addr, timestamp, message,
                                message.payload_digest, namespace)
             d2 == push_message(d1, pubkey_hash, timestamp, message,
                                message.payload_digest, namespace)
         IN  PushAll(d2, addr, timestamp, messages, i + 1, namespace)

\* the messages of one sender, in the order of the set
RECURSIVE MessagesOf(_, _)
MessagesOf(messages, pubkey_hash) ==
    IF messages = <<>> THEN <<>>
    ELSE IF Hash160(Head(messages).sender_pub_key) = pubkey_hash
         THEN <<Head(messages)>> \o MessagesOf(Tail(messages), pubkey_hash)
         ELSE MessagesOf(Tail(messages), pubkey_hash)

\* "send over WS to senders": one frame per sender of the set.  Every
\* sender has a channel of its own, so the channels end the same in
\* whatever order sender_map is iterated.
RECURSIVE SendToSenders(_, _, _, _)
SendToSenders(bus, senders, timestamp, messages) ==
    IF senders = {} THEN bus
    ELSE LET sender_pubkey_hash == CHOOSE h \in senders : TRUE
         IN  SendToSenders(
                 bus_send(bus, sender_pubkey_hash,
                          TimedMessageSet(timestamp,
                              MessagesOf(messages, sender_pubkey_hash))),
                 senders \ {sender_pubkey_hash}, timestamp, messages)

\* PutMessageError::to_status, of the error put_message returns: a stamp
\* error, with the NodeError of a TxReject, or an error of the store
PutMessageError_to_status(error, node_err) ==
    CASE error = "DB" -> 500
      [] error = "TxReject" -> IF node_err = "Rpc" THEN 400 ELSE 500
      [] OTHER -> 400

\* mutant: the frame goes to the channel of the destination only
put_message_DestOnly(addr, messages, d, n, bus, timestamp, namespace) ==
    Let(VerifyCollect(addr, messages, 1, n), LAMBDA v :
        IF v.ret # "Ok"
        THEN [status |-> PutMessageError_to_status(v.ret, v.err),
              error |-> v.ret,
              db |-> d, node |-> v.node, bus |-> bus]
        ELSE [status |-> 200, error |-> "",
              db |-> PushAll(d, addr, timestamp, v.messages, 1, namespace),
              node |-> v.node,
              bus |-> bus_send(bus, addr,
                               TimedMessageSet(timestamp, v.messages))])

\* the handler: the response, and the store, node and bus it leaves
put_message(addr, messages, d, n, bus, timestamp, namespace) ==
    LET senders == {Hash160(messages[i].sender_pub_key) :
                        i \in 1..Len(messages)}
    IN  Let(VerifyCollect(addr, messages, 1, n), LAMBDA v :
        IF v.ret # "Ok"
        THEN [status |-> PutMessageError_to_status(v.ret, v.err),
              error |-> v.ret,
              db |-> d, node |-> v.node, bus |-> bus]
        ELSE [status |-> 200, error |-> "",
              db |-> PushAll(d, addr, timestamp, v.messages, 1, namespace),
              node |-> v.node,
              bus |-> SendToSenders(
                          bus_send(bus, addr,
                                   TimedMessageSet(timestamp, v.messages)),
                          senders, timestamp, v.messages)])

---------------------------------------------------------------------------
(* Proof-of-payment tokens (cashweb-token, HMAC bearer scheme) *)

HmacSecret == "hmac_secret"

\* HMAC-SHA256 and URL-safe base64, as injective constructors
HmacSha256(key, data) == [key |-> key, data |-> data]
Base64Url(bytes) == [b64 |-> bytes]

\* mint: the token of a subject (the address body)
construct_token(subject) == Base64Url(HmacSha256(HmacSecret, subject))

\* validate: the token decodes to the tag of the subject
validate_token(subject, pop_token) ==
    pop_token = Base64Url(HmacSha256(HmacSecret, subject))

\* the value of an Authorization header carrying a token
PopHeader(token) == [scheme |-> "POP", token |-> token]

\* extract_pop: the token of an "Authorization: POP <token>" header
extract_pop(header_map) ==
    IF header_map.authorization # None
         /\ header_map.authorization[1].scheme = "POP"
    THEN Some(header_map.authorization[1].token)
    ELSE None

\* split_pop_token: the token of a string "POP <token>"
split_pop_token(access_token) ==
    IF access_token.scheme = "POP" THEN Some(access_token.token) ELSE None

---------------------------------------------------------------------------
(* The ephemeral wallet (cashweb payments::wallet): the entries, subject  *)
(* -> the outputs awaited for it and the token of the entry; the cleanup   *)
(* tasks scheduled and not yet run; the number of tokens handed out.       *)

WalletInit == [entries |-> <<>>, cleanups |-> {}, next |-> 0]

\* add_outputs: registers the outputs under a fresh token, replacing an
\* earlier entry of the subject, and schedules the cleanup of the entry
add_outputs(w, subject, outputs) ==
    LET token == w.next + 1
    IN  [entries |-> [k \in DOMAIN w.entries \cup {subject} |->
                         IF k = subject
                         THEN [outputs |-> outputs, token |-> token]
                         ELSE w.entries[k]],
         cleanups |-> w.cleanups \cup {[subject |-> subject, token |-> token]},
         next |-> token]

remove_entry(entries, subject) ==
    [k \in DOMAIN entries \ {subject} |-> entries[k]]

\* a cleanup task runs: it removes the entry only if it is the one the task
\* was scheduled for
cleanup(w, task) ==
    [w EXCEPT
       !.cleanups = @ \ {task},
       !.entries = IF task.subject \in DOMAIN @
                        /\ @[task.subject].token = task.token
                    THEN remove_entry(@, task.subject)
                    ELSE @]

\* recv_outputs: every awaited output is among the observed ones; the entry
\* is consumed on success
recv_outputs(w, subject, observed) ==
    IF subject \in DOMAIN w.entries
         /\ \A i \in 1..Len(w.entries[subject].outputs) :
               \E j \in 1..Len(observed) :
                   observed[j] = w.entries[subject].outputs[i]
    THEN [ok |-> TRUE,
          wallet |-> [w EXCEPT !.entries = remove_entry(@, subject)]]
    ELSE [ok |-> FALSE, wallet |-> w]

---------------------------------------------------------------------------
(* net/mod.rs: addresses in URLs *)

\* Address::decode followed by the length check: the body of an address
\* string, None for a string that is no address
address_decode(addr_str) ==
    CASE addr_str = "addr11" -> Some(Hash160(1))
      [] addr_str = "addr12" -> Some(Hash160(2))
      [] OTHER -> None

---------------------------------------------------------------------------
(* cashweb-auth-wrapper *)

\* SignatureScheme; any other scheme number is unsupported
SCHNORR == "Schnorr"
ECDSA == "Ecdsa"

\* an ECDSA signature of a digest under the secret key of public_key
Sign(public_key, digest) ==
    [compact |-> TRUE, signer |-> public_key, msg |-> digest]

\* mutant: a 32-byte digest is taken as given
parse_TrustDigest(wrapper) ==
    IF ~IsPublicKey(wrapper.public_key)
    THEN [err |-> "PublicKey", parsed |-> <<>>]
    ELSE IF wrapper.scheme \notin {SCHNORR, ECDSA}
    THEN [err |-> "UnsupportedScheme", parsed |-> <<>>]
    ELSE IF ~wrapper.signature.compact
    THEN [err |-> "Signature", parsed |-> <<>>]
    ELSE IF wrapper.payload_digest = <<>> /\ wrapper.payload = EmptyPayload
    THEN [err |-> "DigestAndPayloadMissing", parsed |-> <<>>]
    ELSE IF Len(wrapper.payload_digest) \notin {0, 2}
    THEN [err |-> "UnexpectedLengthDigest", parsed |-> <<>>]
    ELSE [err |-> "",
          parsed |-> [public_key |-> wrapper.public_key,
                      signature |-> wrapper.signature,
                      scheme |-> wrapper.scheme,
                      payload |-> wrapper.payload,
                      payload_digest |->
                          IF Len(wrapper.payload_digest) = 2
                          THEN wrapper.payload_digest
                          ELSE Sha256(wrapper.payload)]]

\* AuthWrapper::parse (the same in lib/cashweb-auth-wrapper and in
\* cashweb-auth-wrapper); a 32-byte digest is a pair here
parse(wrapper) ==
    IF ~IsPublicKey(wrapper.public_key)
    THEN [err |-> "PublicKey", parsed |-> <<>>]
    ELSE IF wrapper.scheme \notin {SCHNORR, ECDSA}
    THEN [err |-> "UnsupportedScheme", parsed |-> <<>>]
    ELSE IF ~wrapper.signature.compact
    THEN [err |-> "Signature", parsed |-> <<>>]
    ELSE IF wrapper.payload_digest = <<>> /\ wrapper.payload = EmptyPayload
    THEN [err |-> "DigestAndPayloadMissing", parsed |-> <<>>]
    ELSE IF Len(wrapper.payload_digest) \notin {0, 2}
    THEN [err |-> "UnexpectedLengthDigest", parsed |-> <<>>]
    ELSE IF Len(wrapper.payload_digest) = 2
              /\ Sha256(wrapper.payload) # wrapper.payload_digest
    THEN [err |-> "FraudulentDigest", parsed |-> <<>>]
    ELSE [err |-> "",
          parsed |-> [public_key |-> wrapper.public_key,
                      signature |-> wrapper.signature,
                      scheme |-> wrapper.scheme,
                      payload |-> wrapper.payload,
                      payload_digest |-> Sha256(wrapper.payload)]]

\* ParsedAuthWrapper::verify
verify(parsed) ==
    IF parsed.scheme = SCHNORR THEN "UnsupportedScheme"
    ELSE IF parsed.signature.signer = parsed.public_key
              /\ parsed.signature.msg = parsed.payload_digest
         THEN "Ok"
         ELSE "InvalidSignature"

\* ParsedAuthWrapper::verify of cashweb-auth-wrapper/src/lib.rs: the scheme
\* test is `!=`, and the signature is checked by secp.verify all the same
cashweb_auth_wrapper_verify(parsed) ==
    IF parsed.scheme # SCHNORR THEN "UnsupportedScheme"
    ELSE IF parsed.signature.signer = parsed.public_key
              /\ parsed.signature.msg = parsed.payload_digest
         THEN "Ok"
         ELSE "InvalidSignature"

---------------------------------------------------------------------------
(* net/profiles.rs *)

profile_key(pubkey_hash) == <<pubkey_hash, PROFILE_NAMESPACE>>

\* db.rs: get_raw_profile and put_profile
get_raw_profile(d, pubkey_hash) == DbGet(d, profile_key(pubkey_hash))
db_put_profile(d, pubkey_hash, raw_profile) ==
    DbPut(d, profile_key(pubkey_hash), raw_profile)

\* a handler's outcome: a response, or the error it is rejected with, and
\* the state it leaves
Reply(status, headers, body, st) ==
    [rej |-> None,
     resp |-> [status |-> status, headers |-> headers, body |-> body],
     st |-> st]
Reject(kind, status, detail, st) ==
    [rej |-> Some([kind |-> kind, status |-> status, detail |-> detail]),
     resp |-> <<>>,
     st |-> st]

NoHeaders == [authorization |-> None]

\* a handler that panics: the connection is closed without a response,
\* which is held as a response of status 0
Panic(st) ==
    [rej |-> None,
     resp |-> [status |-> 0, headers |-> NoHeaders, body |-> <<>>],
     st |-> st]

get_profile(addr, st) ==
    LET raw_profile == get_raw_profile(st.db, addr)
    IN  IF raw_profile = None
        THEN Reject("GetProfileError", 404, "NotFound", st)
        ELSE Reply(200, NoHeaders, raw_profile[1], st)

\* a body is the encoding of a message set, of an auth wrapper, or neither
put_profile(addr, profile_raw, st) ==
    IF profile_raw.kind # "AuthWrapper"
    THEN Reject("PutProfileError", 400, "ProfileDecode", st)
    ELSE LET p == parse(profile_raw.value)
         IN  IF p.err # ""
             THEN Reject("PutProfileError", 400, p.err, st)
             ELSE IF verify(p.parsed) # "Ok"
             THEN Reject("PutProfileError", 400, verify(p.parsed), st)
             ELSE Reply(200, NoHeaders, <<>>,
                        [st EXCEPT !.db = db_put_profile(@, addr, profile_raw)])

---------------------------------------------------------------------------
(* net/messages.rs: the read and delete handlers *)

\* the parameters of the query string: those of Query, and access_token
NoQuery ==
    [digest |-> None, start_time |-> None, start_digest |-> None,
     end_time |-> None, end_digest |-> None, access_token |-> None]

\* a hex parameter: the bytes it decodes to, None when it is no hex
HexDecode(hex) == IF hex.valid THEN Some(hex.bytes) ELSE None
Hex(bytes) == [valid |-> TRUE, bytes |-> bytes]

\* the start prefix and the optional end prefix of a query, or the error
construct_prefixes(addr, query, d, namespace) ==
    LET start ==
          IF query.start_time # None /\ query.start_digest = None
          THEN [err |-> "", prefix |-> msg_prefix(addr, query.start_time[1],
                                                  namespace)]
          ELSE IF query.start_time = None /\ query.start_digest # None
          THEN IF HexDecode(query.start_digest[1]) = None
               THEN [err |-> "StartDigestMalformed", prefix |-> <<>>]
               ELSE LET k == get_msg_key_by_digest(d, addr,
                                 HexDecode(query.start_digest[1])[1], namespace)
                    IN  IF k = None
                        THEN [err |-> "StartDigestNotFound", prefix |-> <<>>]
                        ELSE [err |-> "", prefix |-> k[1]]
          ELSE IF query.start_time # None
          THEN [err |-> "StartBothGiven", prefix |-> <<>>]
          ELSE [err |-> "MissingStart", prefix |-> <<>>]
        end ==
          IF query.end_time # None /\ query.end_digest = None
          THEN [err |-> "", prefix |-> Some(msg_prefix(addr, query.end_time[1],
                                                       namespace))]
          ELSE IF query.end_time = None /\ query.end_digest # None
          THEN IF HexDecode(query.end_digest[1]) = None
               THEN [err |-> "EndDigestMalformed", prefix |-> None]
               ELSE LET k == get_msg_key_by_digest(d, addr,
                                 HexDecode(query.end_digest[1])[1], namespace)
                    IN  IF k = None
                        THEN [err |-> "EndDigestNotFound", prefix |-> None]
                        ELSE [err |-> "", prefix |-> k]
          ELSE IF query.end_time # None
          THEN [err |-> "EndBothGiven", prefix |-> None]
          ELSE [err |-> "", prefix |-> None]
    IN  IF start.err # "" THEN [err |-> start.err, start |-> <<>>, end |-> None]
        ELSE IF end.err # "" THEN [err |-> end.err, start |-> <<>>, end |-> None]
        ELSE [err |-> "", start |-> start.prefix, end |-> end.prefix]

get_messages(addr, query, st, namespace) ==
    IF query.digest # None
    THEN IF HexDecode(query.digest[1]) = None
         THEN Reject("GetMessageError", 400, "DigestDecode", st)
         ELSE Let(get_message_by_digest(st.db, addr,
                      HexDecode(query.digest[1])[1], namespace),
                  LAMBDA message :
                  IF message = None
                  THEN Reject("GetMessageError", 404, "NotFound", st)
                  ELSE Reply(200, NoHeaders, message[1], st))
    ELSE Let(construct_prefixes(addr, query, st.db, namespace), LAMBDA p :
             IF p.err # ""
             THEN Reject("GetMessageError", 400, p.err, st)
             ELSE Reply(200, NoHeaders,
                        get_messages_range(st.db, p.start, p.end), st))

\* the digest selects the serialized payload of one message; the range
\* selects the rows of get_messages_range, each with the time of its key
\* and its payload decoded: the handler panics on a payload that does not
\* decode
get_payloads(addr, query, st, namespace) ==
    IF query.digest # None
    THEN IF HexDecode(query.digest[1]) = None
         THEN Reject("GetMessageError", 400, "DigestDecode", st)
         ELSE Let(get_message_by_digest(st.db, addr,
                      HexDecode(query.digest[1])[1], namespace),
                  LAMBDA message :
                  IF message = None
                  THEN Reject("GetMessageError", 404, "NotFound", st)
                  ELSE Reply(200, NoHeaders, message[1].serialized_payload, st))
    ELSE Let(construct_prefixes(addr, query, st.db, namespace), LAMBDA p :
             IF p.err # ""
             THEN Reject("GetMessageError", 400, p.err, st)
             ELSE Let(RangeKeys(st.db, p.start, p.end), LAMBDA keys :
                  IF \E i \in 1..Len(keys) :
                        Payload_decode(st.db[keys[i]].serialized_payload) = None
                  THEN Panic(st)
                  ELSE Reply(200, NoHeaders,
                             [kind |-> "PayloadPage",
                              payloads |->
                                 [i \in 1..Len(keys) |->
                                    [server_time |-> keys[i][3],
                                     payload |->
                                        Payload_decode(
                                            st.db[keys[i]].serialized_payload
                                        )[1]]]],
                             st)))

\* DELETE: the selection of GET, removing instead of returning
remove_messages(addr, query, st, namespace) ==
    IF query.digest # None
    THEN IF HexDecode(query.digest[1]) = None
         THEN Reject("GetMessageError", 400, "DigestDecode", st)
         ELSE LET r == remove_message_by_digest(st.db, addr,
                           HexDecode(query.digest[1])[1], namespace)
              IN  IF r.ret = None
                  THEN Reject("GetMessageError", 404, "NotFound", st)
                  ELSE Reply(200, NoHeaders, <<>>, [st EXCEPT !.db = r.db])
    ELSE LET p == construct_prefixes(addr, query, st.db, namespace)
         IN  IF p.err # ""
             THEN Reject("GetMessageError", 400, p.err, st)
             ELSE Reply(200, NoHeaders, <<>>,
                        [st EXCEPT !.db =
                            remove_messages_range(@, p.start, p.end)])

\* PUT: put_message as a handler on the state
put_messages(addr, messages_raw, st, timestamp, namespace) ==
    IF messages_raw.kind # "MessageSet"
    THEN Reject("PutMessageError", 400, "MessagesDecode", st)
    ELSE Let(put_message(addr, messages_raw.value.messages, st.db, st.node,
                         st.msg_bus, timestamp, namespace), LAMBDA r :
         Let([st EXCEPT !.db = r.db, !.node = r.node, !.msg_bus = r.bus],
             LAMBDA st1 :
             IF r.status # 200
             THEN Reject("PutMessageError", r.status, r.error, st1)
             ELSE Reply(200, NoHeaders, <<>>, st1)))

---------------------------------------------------------------------------
(* net/payments.rs *)

TokenFee == 100000

\* getnewaddress: the body of the n-th address the node hands out
NodeAddr(n) == 20 + n

\* an output of a payment transaction
TxOut(hash, value) == [p2pkh |-> TRUE, hash |-> hash, value |-> value]

\* the BIP70 output of a transaction output
Output(txout) ==
    [amount |-> Some(txout.value),
     script |-> [p2pkh |-> txout.p2pkh, hash |-> txout.hash]]

\* the outputs of all transactions of a payment, flattened
RECURSIVE Outputs(_)
Outputs(txs) ==
    IF txs = <<>> THEN <<>>
    ELSE [i \in 1..Len(Head(txs).output) |-> Output(Head(txs).output[i])]
           \o Outputs(Tail(txs))

\* the loop broadcasting the transactions of a payment
RECURSIVE SendAll(_, _)
SendAll(n, txs) ==
    IF txs = <<>> THEN [ok |-> TRUE, err |-> "", node |-> n]
    ELSE LET sent == send_tx(n, Head(txs))
         IN  IF ~sent.ok
             THEN [ok |-> FALSE, err |-> sent.err, node |-> sent.node]
             ELSE SendAll(sent.node, Tail(txs))

\* PaymentError::to_status of the relay server; node_err is the NodeError
\* of a Node error
relay_PaymentError_to_status(err, node_err) ==
    CASE err = "MissingAcceptHeader" -> 406
      [] err = "MissingContentTypeHeader" -> 415
      [] err = "PaymentDecode" -> 400
      [] err = "Wallet" -> 404
      [] err = "MalformedTx" -> 400
      [] err = "MissingMerchantData" -> 400
      [] err = "Node" -> IF node_err = "Rpc" THEN 400 ELSE 500

\* the header and body checks in front of process_payment
preprocess_payment(headers, body) ==
    IF ~headers.accept THEN "MissingAcceptHeader"
    ELSE IF ~headers.content_type THEN "MissingContentTypeHeader"
    ELSE IF body.kind # "Payment" THEN "PaymentDecode"
    ELSE "Ok"

\* mutant: the token is minted before the wallet is asked
process_payment_NoWallet(payment, st) ==
    IF \E i \in 1..Len(payment.transactions) : ~payment.transactions[i].decodes
    THEN Reject("PaymentError",
                relay_PaymentError_to_status("MalformedTx", ""),
                "MalformedTx", st)
    ELSE IF payment.merchant_data = None
    THEN Reject("PaymentError",
                relay_PaymentError_to_status("MissingMerchantData", ""),
                "MissingMerchantData", st)
    ELSE LET pubkey_hash == payment.merchant_data[1]
             sent == SendAll(st.node, payment.transactions)
         IN  IF ~sent.ok
             THEN Reject("PaymentError",
                         relay_PaymentError_to_status("Node", sent.err),
                         "Node", [st EXCEPT !.node = sent.node])
             ELSE Reply(200,
                        [authorization |->
                            Some(PopHeader(construct_token(pubkey_hash)))],
                        [payment |-> payment],
                        [st EXCEPT !.node = sent.node])

process_payment(payment, st) ==
    IF \E i \in 1..Len(payment.transactions) : ~payment.transactions[i].decodes
    THEN Reject("PaymentError",
                relay_PaymentError_to_status("MalformedTx", ""),
                "MalformedTx", st)
    ELSE IF payment.merchant_data = None
    THEN Reject("PaymentError",
                relay_PaymentError_to_status("MissingMerchantData", ""),
                "MissingMerchantData", st)
    ELSE LET pubkey_hash == payment.merchant_data[1]
             recv == recv_outputs(st.wallet, pubkey_hash,
                                  Outputs(payment.transactions))
             st1 == [st EXCEPT !.wallet = recv.wallet]
             sent == SendAll(st.node, payment.transactions)
         IN  IF ~recv.ok
             THEN Reject("PaymentError",
                         relay_PaymentError_to_status("Wallet", ""),
                         "Wallet", st)
             ELSE IF ~sent.ok
             THEN Reject("PaymentError",
                         relay_PaymentError_to_status("Node", sent.err),
                         "Node", [st1 EXCEPT !.node = sent.node])
             ELSE Reply(200,
                        [authorization |->
                            Some(PopHeader(construct_token(pubkey_hash)))],
                        [payment |-> payment],
                        [st1 EXCEPT !.node = sent.node])

\* the invoice for a token of addr; err when the node hands out no address
generate_payment_request(addr, st) ==
    Let(get_new_addr(st.node), LAMBDA new_addr :
    IF ~new_addr.ok
    THEN [err |-> "Node", resp |-> <<>>, st |-> st]
    ELSE LET output_addr == NodeAddr(new_addr.addr)
             output == [amount |-> Some(TokenFee),
                        script |-> [p2pkh |-> TRUE, hash |-> output_addr]]
         IN  [err |-> "",
              resp |-> [status |-> 402, headers |-> NoHeaders,
                        body |-> [merchant_data |-> Some(addr),
                                  outputs |-> <<output>>,
                                  payment_url |-> "/payments"]],
              st |-> [st EXCEPT
                        !.node = new_addr.node,
                        !.wallet = add_outputs(@, addr, <<output>>)]])

---------------------------------------------------------------------------
(* net/protection.rs *)

\* None when the token validates for addr, else the rejection
pop_protection(addr, header_map, access_token) ==
    LET pop_token == IF extract_pop(header_map) # None
                     THEN extract_pop(header_map)
                     ELSE IF access_token # None
                     THEN split_pop_token(access_token[1])
                     ELSE None
    IN  IF pop_token # None
        THEN IF validate_token(addr, pop_token[1]) THEN None
             ELSE Some([kind |-> "ProtectionError", status |-> 400,
                        detail |-> "Validation", addr |-> addr])
        ELSE Some([kind |-> "ProtectionError", status |-> 402,
                   detail |-> "MissingToken", addr |-> addr])

protection_error_recovery(err, st) ==
    IF err.detail = "Validation"
    THEN [resp |-> [status |-> 400, headers |-> NoHeaders,
                    body |-> "validation failed"],
          st |-> st]
    ELSE LET r == generate_payment_request(err.addr, st)
         IN  IF r.err = "" THEN [resp |-> r.resp, st |-> r.st]
             ELSE [resp |-> [status |-> 400, headers |-> NoHeaders,
                             body |-> r.err],
                   st |-> st]

---------------------------------------------------------------------------
(* main.rs: the routes of the relay server *)

\* upgrade_ws: the socket subscribes to the channel of the address
subscribe(bus, addr) ==
    [c \in DOMAIN bus \cup {addr} |-> IF c \in DOMAIN bus THEN bus[c] ELSE <<>>]

\* a filter rejection that is no error of a handler
FilterReject(kind, st) ==
    [rej |-> Some([kind |-> kind, status |-> 0, detail |-> ""]),
     resp |-> <<>>, st |-> st]

\* SETTINGS.limits: the sizes content_length_limit is given.  profile_size
\* has no default in the sources.
message_size == 1024 * 1024 * 20
profile_size == 1024 * 512

\* the routes in the order of the `or` chain: path prefix, whether the
\* address is protected, the method filter, whether warp::query() follows,
\* the limit of content_length_limit when it follows, and the handler
Routes ==
    << [name |-> "websocket_messages", prefix |-> <<"ws", "messages">>,
        protected |-> TRUE, method |-> "WS", query |-> FALSE,
        limit |-> None],
       [name |-> "websocket_feeds", prefix |-> <<"ws", "feeds">>,
        protected |-> FALSE, method |-> "WS", query |-> FALSE,
        limit |-> None],
       [name |-> "websocket_messages_fallback", prefix |-> <<"ws">>,
        protected |-> TRUE, method |-> "WS", query |-> FALSE,
        limit |-> None],
       [name |-> "messages_get", prefix |-> <<"messages">>,
        protected |-> TRUE, method |-> "GET", query |-> TRUE,
        limit |-> None],
       [name |-> "messages_delete", prefix |-> <<"messages">>,
        protected |-> TRUE, method |-> "DELETE", query |-> TRUE,
        limit |-> None],
       [name |-> "messages_put", prefix |-> <<"messages">>,
        protected |-> FALSE, method |-> "PUT", query |-> FALSE,
        limit |-> Some(message_size)],
       [name |-> "feeds_get", prefix |-> <<"feeds">>,
        protected |-> FALSE, method |-> "GET", query |-> TRUE,
        limit |-> None],
       [name |-> "feeds_delete", prefix |-> <<"feeds">>,
        protected |-> TRUE, method |-> "DELETE", query |-> TRUE,
        limit |-> None],
       [name |-> "feeds_put", prefix |-> <<"feeds">>,
        protected |-> TRUE, method |-> "PUT", query |-> FALSE,
        limit |-> Some(message_size)],
       [name |-> "payloads_get", prefix |-> <<"payloads">>,
        protected |-> TRUE, method |-> "GET", query |-> TRUE,
        limit |-> None],
       [name |-> "profile_get", prefix |-> <<"profiles">>,
        protected |-> FALSE, method |-> "GET", query |-> FALSE,
        limit |-> None],
       [name |-> "profile_put", prefix |-> <<"profiles">>,
        protected |-> TRUE, method |-> "PUT", query |-> FALSE,
        limit |-> Some(profile_size)] >>

\* warp::query::<Query>(): the query string deserializes; start_time and
\* end_time are u64
Query_deserializes(query) ==
    /\ query.start_time # None => query.start_time[1] >= 0
    /\ query.end_time # None => query.end_time[1] >= 0

\* warp::body::content_length_limit(limit): the rejection of a request
\* without a Content-Length header or with one above the limit
content_length_limit(limit, req) ==
    IF req.content_length = None THEN Some("LengthRequired")
    ELSE IF req.content_length[1] > limit THEN Some("PayloadTooLarge")
    ELSE None

\* the handler a route ends in
Handler(name, addr, req, st, timestamp) ==
    CASE name = "websocket_messages" ->
            Reply(101, NoHeaders, <<>>,
                  [st EXCEPT !.msg_bus = subscribe(@, addr)])
      [] name = "websocket_feeds" ->
            Reply(101, NoHeaders, <<>>,
                  [st EXCEPT !.feed_bus = subscribe(@, addr)])
      [] name = "websocket_messages_fallback" ->
            Reply(101, NoHeaders, <<>>,
                  [st EXCEPT !.msg_bus = subscribe(@, addr)])
      [] name = "messages_get" ->
            get_messages(addr, req.query, st, MESSAGE_NAMESPACE)
      [] name = "messages_delete" ->
            remove_messages(addr, req.query, st, MESSAGE_NAMESPACE)
      [] name = "messages_put" ->
            put_messages(addr, req.body, st, timestamp, MESSAGE_NAMESPACE)
      [] name = "feeds_get" ->
            get_messages(addr, req.query, st, FEED_NAMESPACE)
      [] name = "feeds_delete" ->
            remove_messages(addr, req.query, st, FEED_NAMESPACE)
      [] name = "feeds_put" ->
            put_messages(addr, req.body, st, timestamp, FEED_NAMESPACE)
      [] name = "payloads_get" ->
            get_payloads(addr, req.query, st, MESSAGE_NAMESPACE)
      [] name = "profile_get" -> get_profile(addr, st)
      [] name = "profile_put" -> put_profile(addr, req.body, st)

\* addr_protected: addr_base, then pop_protection on the headers
addr_protected(addr, req) == pop_protection(addr, req.headers, None)

\* one route: the filters in the order main.rs chains them, then the
\* handler; ran tells whether the handler was called
Route(route, req, st, timestamp) ==
    LET n == Len(route.prefix)
        no == [ran |-> FALSE]
    IN  IF Len(req.path) < n \/ SubSeq(req.path, 1, n) # route.prefix
        THEN no @@ FilterReject("NotFound", st)
        ELSE IF Len(req.path) < n + 1
        THEN no @@ FilterReject("NotFound", st)
        ELSE IF address_decode(req.path[n + 1]) = None
        THEN no @@ FilterReject("AddressDecode", st)
        ELSE LET addr == address_decode(req.path[n + 1])[1]
                 denied == IF route.protected
                           THEN addr_protected(addr, req) ELSE None
             IN  IF denied # None
                 THEN no @@ [rej |-> denied, resp |-> <<>>, st |-> st]
                 ELSE IF route.method = "WS" /\ req.method # "GET"
                 THEN no @@ FilterReject("MethodNotAllowed", st)
                 ELSE IF route.method = "WS" /\ ~req.upgrade
                 THEN no @@ FilterReject("MissingHeader", st)
                 ELSE IF route.method # "WS" /\ req.method # route.method
                 THEN no @@ FilterReject("MethodNotAllowed", st)
                 ELSE IF route.query /\ ~Query_deserializes(req.query)
                 THEN no @@ FilterReject("InvalidQuery", st)
                 ELSE IF route.limit # None
                           /\ content_length_limit(route.limit[1], req) # None
                 THEN no @@ FilterReject(
                                content_length_limit(route.limit[1], req)[1],
                                st)
                 ELSE [ran |-> TRUE]
                        @@ Handler(route.name, addr, req, st, timestamp)

\* the payments route: warp::path(PAYMENTS_PATH) matches the first segment
PaymentsRoute(req, st) ==
    IF req.path = <<>> \/ Head(req.path) # "payments"
    THEN [ran |-> FALSE] @@ FilterReject("NotFound", st)
    ELSE IF req.method # "POST"
    THEN [ran |-> FALSE] @@ FilterReject("MethodNotAllowed", st)
    ELSE IF content_length_limit(profile_size, req) # None
    THEN [ran |-> FALSE]
           @@ FilterReject(content_length_limit(profile_size, req)[1], st)
    ELSE IF preprocess_payment(req.headers, req.body) # "Ok"
    THEN LET e == preprocess_payment(req.headers, req.body)
         IN  [ran |-> FALSE]
               @@ Reject("PaymentError",
                         relay_PaymentError_to_status(e, ""), e, st)
    ELSE [ran |-> TRUE] @@ process_payment(req.body.value, st)

\* the first rejection of a kind
Find(rejs, kind) ==
    LET hits == {i \in 1..Len(rejs) : rejs[i].kind = kind}
    IN  IF hits = {} THEN None
        ELSE Some(rejs[CHOOSE i \in hits : \A j \in hits : i <= j])

\* ToResponse::to_response: the body is the message, empty for a 500
to_response(err) ==
    [status |-> err.status, headers |-> NoHeaders,
     body |-> IF err.status # 500 THEN err.detail ELSE <<>>]

\* net/mod.rs: handle_rejection over the rejections of all routes
handle_rejection(rejs, st) ==
    LET Custom(kind) == Find(rejs, kind) # None
        plain(status) ==
            [resp |-> [status |-> status, headers |-> NoHeaders, body |-> <<>>],
             st |-> st]
    IN  IF Custom("AddressDecode")
        THEN [resp |-> [status |-> 400, headers |-> NoHeaders,
                        body |-> "address decoding failed"],
              st |-> st]
        ELSE IF Custom("GetProfileError")
        THEN [resp |-> to_response(Find(rejs, "GetProfileError")[1]), st |-> st]
        ELSE IF Custom("PutProfileError")
        THEN [resp |-> to_response(Find(rejs, "PutProfileError")[1]), st |-> st]
        ELSE IF Custom("GetMessageError")
        THEN [resp |-> to_response(Find(rejs, "GetMessageError")[1]), st |-> st]
        ELSE IF Custom("PutMessageError")
        THEN [resp |-> to_response(Find(rejs, "PutMessageError")[1]), st |-> st]
        ELSE IF Custom("PaymentError")
        THEN [resp |-> to_response(Find(rejs, "PaymentError")[1]), st |-> st]
        ELSE IF Custom("ProtectionError")
        THEN protection_error_recovery(Find(rejs, "ProtectionError")[1], st)
        ELSE IF Custom("PayloadTooLarge") THEN plain(413)
        ELSE IF \A i \in 1..Len(rejs) : rejs[i].kind = "NotFound"
        THEN plain(404)
        ELSE plain(500)

\* the chain root.or(payments).or(...): the first route that replies
\* answers; a rejecting route leaves its rejection (and what its handler
\* did) and the next one is tried; when all reject, handle_rejection answers
RECURSIVE TryRoutes(_, _, _, _, _, _)
TryRoutes(i, req, st, timestamp, rejs, ran) ==
    IF i > Len(Routes)
    THEN [ran |-> ran] @@ handle_rejection(rejs, st)
    ELSE Let(Route(Routes[i], req, st, timestamp), LAMBDA o :
         Let(IF o.ran THEN Append(ran, Routes[i].name) ELSE ran, LAMBDA ran1 :
             IF o.rej = None
             THEN [ran |-> ran1, resp |-> o.resp, st |-> o.st]
             ELSE TryRoutes(i + 1, req, o.st, timestamp,
                            Append(rejs, o.rej[1]), ran1)))

\* what opening ./static/index.html gives: the file, NotFound when there
\* is none, and another error (a file that may not be read)
IndexHtml == {"Ok", "NotFound", "PermissionDenied"}

\* the root handler: path::end(), get() and fs::file("./static/index.html")
\* on a request without conditional and range headers; index_html is what
\* opening the file gives
RootRoute(req, st, index_html) ==
    IF req.path # <<>> THEN [ran |-> FALSE] @@ FilterReject("NotFound", st)
    ELSE IF req.method # "GET"
    THEN [ran |-> FALSE] @@ FilterReject("MethodNotAllowed", st)
    ELSE IF index_html = "NotFound"
    THEN [ran |-> FALSE] @@ FilterReject("NotFound", st)
    ELSE IF index_html # "Ok"
    THEN [ran |-> FALSE] @@ FilterReject("FilePermissionError", st)
    ELSE [ran |-> TRUE]
           @@ Reply(200, NoHeaders,
                    [kind |-> "File", path |-> "./static/index.html"], st)

rest_api(req, st, timestamp, index_html) ==
    Let(RootRoute(req, st, index_html), LAMBDA root :
    IF root.rej = None
    THEN [ran |-> <<"root">>, resp |-> root.resp, st |-> root.st]
    ELSE Let(PaymentsRoute(req, st), LAMBDA pay :
         IF pay.rej = None
         THEN [ran |-> <<"payments">>, resp |-> pay.resp, st |-> pay.st]
         ELSE TryRoutes(1, req, pay.st, timestamp,
                        <<root.rej[1], pay.rej[1]>>,
                        IF pay.ran THEN <<"payments">> ELSE <<>>)))

---------------------------------------------------------------------------
(* net/ws/bus.rs, net/ws/mod.rs (and the same actors in net/ws.rs):       *)
(* the MessageBus actor and the MessagingSocket actors.  ws.ws_map is the  *)
(* map of the bus, ws.mailbox its mailbox, ws.sockets the socket actors    *)
(* by actor address, ws.instant the monotonic clock in milliseconds,       *)
(* ws.unix_now the wall clock in milliseconds, ws.puts the PUT handlers    *)
(* in flight.                                                              *)

CLIENT_TIMEOUT == 10000
HEARTBEAT_INTERVAL == 5000

WsInit ==
    [ws_map |-> <<>>, mailbox |-> <<>>, sockets |-> <<>>,
     instant |-> 0, unix_now |-> 1, puts |-> <<>>]

\* the messages of the bus
NewSocket(addr, actor_addr) ==
    [type |-> "NewSocket", addr |-> addr, actor_addr |-> actor_addr]
RemoveSocket(raw_addr, actor_addr) ==
    [type |-> "RemoveSocket", addr |-> raw_addr, actor_addr |-> actor_addr]
SendMessage(addr, timed_msg_set_raw) ==
    [type |-> "SendMessage", addr |-> addr,
     timed_msg_set_raw |-> timed_msg_set_raw]

\* Handler<NewSocket>
MessageBus_handle_NewSocket(ws_map, msg) ==
    IF msg.addr \in DOMAIN ws_map
    THEN [ws_map EXCEPT ![msg.addr] = Append(@, msg.actor_addr)]
    ELSE DbPut(ws_map, msg.addr, <<msg.actor_addr>>)

\* iter().enumerate().find(): the first position of actor_addr, 0 for none
Position(sockets, actor_addr) ==
    IF \E i \in 1..Len(sockets) : sockets[i] = actor_addr
    THEN CHOOSE i \in 1..Len(sockets) :
            /\ sockets[i] = actor_addr
            /\ \A j \in 1..(i - 1) : sockets[j] # actor_addr
    ELSE 0

\* Vec::remove
RemoveAt(sockets, id) ==
    SubSeq(sockets, 1, id - 1) \o SubSeq(sockets, id + 1, Len(sockets))

\* Handler<RemoveSocket>
MessageBus_handle_RemoveSocket(ws_map, msg) ==
    IF msg.addr \in DOMAIN ws_map
    THEN IF Position(ws_map[msg.addr], msg.actor_addr) # 0
         THEN [ws_map EXCEPT ![msg.addr] =
                  RemoveAt(@, Position(@, msg.actor_addr))]
         ELSE ws_map
    ELSE ws_map

\* Addr::send of a SendMessageSet: it reaches the mailbox of an actor
\* that has not stopped, where it waits until the actor runs, and is
\* dropped with an error by a stopped one
Addr_send(socket, frame) ==
    IF ~socket.stopped
    THEN [socket EXCEPT !.mailbox = Append(@, frame), !.sends = @ + 1]
    ELSE [socket EXCEPT !.sends = @ + 1]

\* for addr in sockets: one send for every element of the Vec
RECURSIVE SendEach(_, _, _)
SendEach(addrs, sockets, frame) ==
    IF addrs = <<>> THEN sockets
    ELSE SendEach(Tail(addrs),
                  [sockets EXCEPT ![Head(addrs)] = Addr_send(@, frame)],
                  frame)

\* Handler<SendMessage>: the sockets after the sends to those of msg.addr
MessageBus_handle_SendMessage(ws_map, sockets, msg) ==
    IF msg.addr \in DOMAIN ws_map
    THEN SendEach(ws_map[msg.addr], sockets, msg.timed_msg_set_raw)
    ELSE sockets

\* the bus handles one message of its mailbox
MessageBus_handle(w, msg) ==
    CASE msg.type = "NewSocket" ->
            [w EXCEPT !.ws_map = MessageBus_handle_NewSocket(@, msg)]
      [] msg.type = "RemoveSocket" ->
            [w EXCEPT !.ws_map = MessageBus_handle_RemoveSocket(@, msg)]
      [] msg.type = "SendMessage" ->
            [w EXCEPT !.sockets =
                MessageBus_handle_SendMessage(w.ws_map, @, msg)]

\* MessagingSocket::new: hb is Instant::now().  The actor is made but does
\* not run before its context is polled (running), and stopped tells that
\* it has run and stopped.  interval is the instant at which the heartbeat
\* interval fires next, 0 while none is registered; pinged tells that a
\* ping is unanswered.  message_bus is a clone of the address of the bus
\* with a sender of its own, which nothing has blocked (parked).
MessagingSocket_new(addr_raw, now) ==
    [hb |-> now, addr_raw |-> addr_raw, running |-> FALSE,
     stopped |-> FALSE, parked |-> FALSE, interval |-> 0,
     pinged |-> FALSE, mailbox |-> <<>>, frames |-> <<>>, sends |-> 0]

\* the actor begins to run.  Actor::started, self.hb(ctx): run_interval
\* registers the interval, which fires first HEARTBEAT_INTERVAL after now
started(act, now) ==
    [act EXCEPT !.running = TRUE, !.interval = now + HEARTBEAT_INTERVAL]

\* ctx.stop() and Actor::stopping.  message_bus.send(remove_socket) puts
\* RemoveSocket in the mailbox of the bus when it is called, unless the
\* sender is blocked by an earlier send of its own: then the message stays
\* in the spawned future, which is dropped with the context that stops
\* (Running::Stop).  The send of stopping is the only one the sender of a
\* socket ever makes.
stopping(w, s) ==
    IF w.sockets[s].parked
    THEN [w EXCEPT !.sockets[s].running = FALSE,
                   !.sockets[s].stopped = TRUE,
                   !.sockets[s].mailbox = <<>>]
    ELSE [w EXCEPT !.sockets[s].running = FALSE,
                   !.sockets[s].stopped = TRUE,
                   !.sockets[s].mailbox = <<>>,
                   !.mailbox = Append(@, RemoveSocket(w.sockets[s].addr_raw,
                                                      s))]

\* mutant: the heartbeat stops a socket that was silent for CLIENT_TIMEOUT
timed_out_AtTimeout(act, now) == now - act.hb >= CLIENT_TIMEOUT

\* Instant::now().duration_since(act.hb) > CLIENT_TIMEOUT
timed_out(act, now) == now - act.hb > CLIENT_TIMEOUT

\* the closure of MessagingSocket::hb, run every HEARTBEAT_INTERVAL
hb(w, s) ==
    IF timed_out(w.sockets[s], w.instant)
    THEN stopping(w, s)
    ELSE [w EXCEPT !.sockets[s].pinged = TRUE]

\* StreamHandler::handle
StreamHandler_handle(w, s, msg) ==
    CASE msg = "Ping" -> [w EXCEPT !.sockets[s].hb = w.instant]
      [] msg = "Pong" -> [w EXCEPT !.sockets[s].hb = w.instant,
                                   !.sockets[s].pinged = FALSE]
      [] OTHER -> stopping(w, s)

\* Handler<SendMessageSet>: ctx.binary of the first frame of the mailbox
MessagingSocket_handle_SendMessageSet(w, s) ==
    [w EXCEPT !.sockets[s].frames = Append(@, Head(w.sockets[s].mailbox)),
              !.sockets[s].mailbox = Tail(@)]

\* ws_connect up to its await: the address is decoded, the socket actor
\* is made (MessagingSocket::new reads the clock) and NewSocket is sent to
\* the bus
ws_connect(w, addr_str, actor_addr) ==
    IF address_decode(addr_str) = None THEN w
    ELSE [w EXCEPT !.sockets = DbPut(@, actor_addr,
                       MessagingSocket_new(address_decode(addr_str)[1],
                                           w.instant)),
                   !.mailbox = Append(@, NewSocket(address_decode(addr_str)[1],
                                                   actor_addr))]

\* mutant: ws_connect does not wait for the bus
NewSocketHandled_Unawaited(w, s) == s \in DOMAIN w.sockets

\* msg_bus.send(new_socket).await has returned: the bus has handled the
\* NewSocket of socket s
NewSocketHandled(w, s) ==
    /\ s \in DOMAIN w.sockets
    /\ \A i \in 1..Len(w.mailbox) :
          ~(w.mailbox[i].type = "NewSocket" /\ w.mailbox[i].actor_addr = s)

---------------------------------------------------------------------------
(* Handlers that call the node.  A handler awaits the answer of every call *)
(* it makes (send_tx, get_new_addr), and while it waits the server runs    *)
(* the other handlers.  tasks holds the suspended handlers: the operation  *)
(* and its arguments, the calls it makes when each of them is answered     *)
(* (plan), how many of them the node has answered (done), the NodeError of *)
(* the call that failed (err), the address a getnewaddress returned        *)
(* (addr), and the wallet the handler read before its first call (held).   *)

\* a node that answers every call
Answering(n) == [n EXCEPT !.up = TRUE, !.rejects = {}]

\* the calls a handler has made that took the node from before to after
CallsOf(before, after) ==
    IF after.addrs > before.addrs
    THEN <<[method |-> "getnewaddress", tx |-> MalformedTx]>>
    ELSE [i \in 1..(Len(after.sent) - Len(before.sent)) |->
             [method |-> "sendrawtransaction",
              tx |-> after.sent[Len(before.sent) + i]]]

Task(op, args, plan, held) ==
    [op |-> op, args |-> args, plan |-> plan, done |-> 0, err |-> "",
     addr |-> 0, held |-> held]

\* the handler of the task waits for the answer of a call
Pending(task) == task.done < Len(task.plan) /\ task.err = ""

\* the transactions of the task that the node has accepted
Accepted(task) == [i \in 1..task.done |-> task.plan[i].tx]

\* the node as the handler of a task has seen it answer: every call up to
\* the one that failed, and that one with its error
Seen(n, task) ==
    [n EXCEPT !.up = task.err # "Http",
              !.rejects = IF task.err = "Rpc"
                          THEN {task.plan[task.done + 1].tx} ELSE {},
              !.addrs = IF task.addr > 0 THEN task.addr - 1 ELSE @]

\* the node answers the call the i-th suspended handler waits for
NodeAnswer(i) ==
    /\ i \in 1..Len(tasks)
    /\ Pending(tasks[i])
    /\ \E call \in {tasks[i].plan[tasks[i].done + 1]} :
       \E r \in {IF call.method = "getnewaddress" THEN get_new_addr(node)
                 ELSE send_tx(node, call.tx)} :
          /\ node' = r.node
          /\ tasks' = [tasks EXCEPT ![i] =
                          IF ~r.ok THEN [@ EXCEPT !.err = r.err]
                          ELSE IF call.method = "getnewaddress"
                          THEN [@ EXCEPT !.done = @ + 1, !.addr = r.addr]
                          ELSE [@ EXCEPT !.done = @ + 1]]
          /\ resp' = [op |-> "answer", args |-> <<i, call.method>>,
                      ret |-> r.ok]
    /\ UNCHANGED <<db, nops, msg_bus, feed_bus, wallet, ws>>

\* the node becomes unreachable, or reachable again.  Only a call observes
\* it, so the change is taken while a handler waits for an answer.
NodeFlip ==
    /\ \E i \in 1..Len(tasks) : Pending(tasks[i])
    /\ node' = [node EXCEPT !.up = ~@]
    /\ resp' = [op |-> "node", args |-> <<>>, ret |-> <<>>]
    /\ UNCHANGED <<db, nops, msg_bus, feed_bus, wallet, ws, tasks>>

---------------------------------------------------------------------------
(* The store driven directly, as the tests of db.rs drive it *)

StoreInit ==
    /\ db = <<>>
    /\ resp = [op |-> "none", args |-> <<>>, ret |-> <<>>]
    /\ nops = 0
    /\ node = NodeInit
    /\ msg_bus = <<>>
    /\ feed_bus = <<>>
    /\ wallet = WalletInit
    /\ ws = WsInit
    /\ tasks = <<>>

Push(a, ns, t, dg) ==
    /\ nops < MaxOps
    /\ db' = push_message(db, a, t, RawMessage(dg, t), dg, ns)
    /\ resp' = [op |-> "push", args |-> <<a, ns, t, dg>>, ret |-> <<>>]
    /\ nops' = nops + 1
    /\ UNCHANGED netVars

RemoveByDigest(a, ns, dg) ==
    /\ nops < MaxOps
    /\ LET r == remove_message_by_digest(db, a, dg, ns)
       IN  /\ db' = r.db
           /\ resp' = [op |-> "remove_digest", args |-> <<a, ns, dg>>,
                       ret |-> r.ret]
    /\ nops' = nops + 1
    /\ UNCHANGED netVars

RemoveRange(a, ns, s, oe) ==
    /\ nops < MaxOps
    /\ db' = remove_messages_range(db, msg_prefix(a, s, ns),
                 IF oe = None THEN None ELSE Some(msg_prefix(a, oe[1], ns)))
    /\ resp' = [op |-> "remove_range", args |-> <<a, ns, s, oe>>, ret |-> <<>>]
    /\ nops' = nops + 1
    /\ UNCHANGED netVars

GetByDigest(a, ns, dg) ==
    /\ nops < MaxOps
    /\ resp' = [op |-> "get_digest", args |-> <<a, ns, dg>>,
                ret |-> get_message_by_digest(db, a, dg, ns)]
    /\ nops' = nops + 1
    /\ UNCHANGED netVars
    /\ UNCHANGED db

GetRange(a, ns, s, oe) ==
    /\ nops < MaxOps
    /\ resp' = [op |-> "get_range", args |-> <<a, ns, s, oe>>,
                ret |-> get_messages_range(db, msg_prefix(a, s, ns),
                   IF oe = None THEN None ELSE Some(msg_prefix(a, oe[1], ns)))]
    /\ nops' = nops + 1
    /\ UNCHANGED netVars
    /\ UNCHANGED db

OptTimes == {None} \cup {Some(t) : t \in Times}

StoreNext ==
    \/ \E a \in Addrs, ns \in Namespaces, t \in Times, dg \in Digests :
          Push(a, ns, t, dg)
    \/ \E a \in Addrs, ns \in Namespaces, dg \in Digests :
          RemoveByDigest(a, ns, dg)
    \/ \E a \in Addrs, ns \in Namespaces, s \in Times, oe \in OptTimes :
          RemoveRange(a, ns, s, oe)
    \/ \E a \in Addrs, ns \in Namespaces, dg \in Digests :
          GetByDigest(a, ns, dg)
    \/ \E a \in Addrs, ns \in Namespaces, s \in Times, oe \in OptTimes :
          GetRange(a, ns, s, oe)

SpecStore == StoreInit /\ [][StoreNext]_vars

---------------------------------------------------------------------------
(* Properties of the message store *)

\* the message rows of namespace (a, ns)
MsgKeys(d, a, ns) == {k \in DOMAIN d : k[1] = a /\ k[2] = ns}

\* a message with digest dg is stored under (a, ns)
Stored(d, a, ns, dg) == \E k \in MsgKeys(d, a, ns) : d[k].payload_digest = dg

\* C3: every stored (addr, ns, digest) is found by get_by_digest, and right
\* after delete_by_digest(addr, ns, digest) get_by_digest(addr, ns, digest)
\* is none.
C3_StoredIsFoundByDigest ==
    /\ \A a \in Addrs, ns \in Namespaces, dg \in Digests :
          Stored(db, a, ns, dg) =>
             LET got == get_message_by_digest(db, a, dg, ns)
             IN  got # None /\ got[1].payload_digest = dg
    /\ resp.op = "remove_digest" =>
          get_message_by_digest(db, resp.args[1], resp.args[3], resp.args[2])
             = None

\* C4: delete_by_digest and delete_range remove, with every message row
\* they remove, the digest-index row of that message.
C4_DeleteRemovesIndexRow ==
    [][\A a \in Addrs, ns \in Namespaces :
          \A k \in MsgKeys(db, a, ns) :
             k \notin DOMAIN db' =>
                digest_key(a, db[k].payload_digest) \notin DOMAIN db']_vars

\* the rows a time-bounded range read over (a, ns) has to return
RowsInRange(d, a, ns, s, oe) ==
    {k \in MsgKeys(d, a, ns) : s <= k[3] /\ (oe = None \/ k[3] < oe[1])}

SeqToSet(s) == {s[i] : i \in 1..Len(s)}

\* C5: a range read over (addr, ns) with timestamp bounds returns exactly
\* the rows of (addr, ns) with start <= t < end (t >= start without an end),
\* and nothing when start = end.
C5_RangeReadExact ==
    resp.op = "get_range" =>
       LET a == resp.args[1]
           ns == resp.args[2]
           s == resp.args[3]
           oe == resp.args[4]
           rows == RowsInRange(db, a, ns, s, oe)
           got == resp.ret.messages
       IN  /\ Len(got) = Cardinality(rows)
           /\ SeqToSet(got) = {db[k] : k \in rows}
           /\ (oe = Some(s) => got = <<>>)

C5_Witness ==
    /\ resp.op = "get_range"
    /\ resp.args[4] # None
    /\ Len(resp.ret.messages) >= 1
    /\ \E k \in MsgKeys(db, resp.args[1], resp.args[2]) :
          k[3] >= resp.args[4][1]

\* C6: a range read yields its rows in strictly ascending
\* (timestamp, digest prefix) order.
C6_RangeReadAscending ==
    resp.op = "get_range" =>
       LET got == resp.ret.messages
       IN  \A i, j \in 1..Len(got) :
              i < j =>
                 \/ got[i].received_time < got[j].received_time
                 \/ /\ got[i].received_time = got[j].received_time
                    /\ DigestPrefix(got[i].payload_digest)
                          < DigestPrefix(got[j].payload_digest)

C6_Witness ==
    /\ resp.op = "get_range"
    /\ resp.args[4] = None
    /\ Len(resp.ret.messages) >= 2
    /\ resp.ret.messages[1].received_time
          < resp.ret.messages[2].received_time

---------------------------------------------------------------------------
(* verify_stamps applied to the stamps a client can attach *)

MaxOutputs == 2
MaxVouts == 2
MaxOutpoints == 2

\* sequences over S of length at most n
RECURSIVE SeqsUpTo(_, _)
SeqsUpTo(S, n) ==
    IF n = 0 THEN {<<>>}
    ELSE LET shorter == SeqsUpTo(S, n - 1)
         IN  shorter \cup {Append(q, x) : q \in shorter, x \in S}

PubKeys == {1, 2}
PubkeyHashes == {Hash160(k) : k \in 0..(CurveOrder - 1)}
Scripts == {OtherScript} \cup {P2PKH(h) : h \in PubkeyHashes}
RawTxs == {MalformedTx} \cup {Tx(o) : o \in SeqsUpTo(Scripts, MaxOutputs)}
StampOutpoints ==
    [stamp_tx : RawTxs, vouts : SeqsUpTo(0..(MaxOutputs - 1), MaxVouts)]
StampPayloads == [destination : PubKeys, long : {FALSE}]

\* the node rejects the transactions whose second output has a
\* non-standard script
StampRejects ==
    {tx \in RawTxs : Len(tx.output) = 2 /\ tx.output[2] = OtherScript}

StampInit ==
    /\ db = <<>>
    /\ resp = [op |-> "none", args |-> <<>>, ret |-> <<>>]
    /\ nops = 0
    /\ node = [NodeInit EXCEPT !.rejects = StampRejects]
    /\ msg_bus = <<>>
    /\ feed_bus = <<>>
    /\ wallet = WalletInit
    /\ ws = WsInit
    /\ tasks = <<>>

MaxStampCalls == 1

\* verify_stamps is called: it runs to its first send_tx, or to its end
\* when it sends nothing
VerifyStamps(stamp_outpoints, serialized_payload, destination_pubkey) ==
    /\ \E r \in {verify_stamps(stamp_outpoints, serialized_payload,
                                destination_pubkey, Answering(node))} :
       \E task \in {Task("verify_stamps",
                          <<stamp_outpoints, serialized_payload,
                            destination_pubkey>>,
                          CallsOf(node, r.node), <<>>)} :
          IF task.plan = <<>>
          THEN /\ resp' = [op |-> "verify_stamps", args |-> task.args,
                            ret |-> r.ret, task |-> task]
               /\ tasks' = tasks
          ELSE /\ resp' = [op |-> "await", args |-> task.args, ret |-> <<>>]
               /\ tasks' = Append(tasks, task)
    /\ nops' = nops + 1
    /\ UNCHANGED <<db, node, msg_bus, feed_bus, wallet, ws>>

\* verify_stamps returns: after its last send_tx, or with the TxReject of
\* the send_tx that failed
VerifyStampsResume(i) ==
    /\ i \in 1..Len(tasks)
    /\ tasks[i].op = "verify_stamps"
    /\ ~Pending(tasks[i])
    /\ resp' = [op |-> "verify_stamps", args |-> tasks[i].args,
                ret |-> verify_stamps(tasks[i].args[1], tasks[i].args[2],
                                      tasks[i].args[3],
                                      Seen(node, tasks[i])).ret,
                task |-> tasks[i]]
    /\ tasks' = RemoveAt(tasks, i)
    /\ UNCHANGED <<db, nops, node, msg_bus, feed_bus, wallet, ws>>

StampNext ==
    \/ /\ nops < MaxStampCalls
       /\ \E o \in SeqsUpTo(StampOutpoints, MaxOutpoints),
             p \in StampPayloads, k \in PubKeys :
              VerifyStamps(o, p, k)
    \/ NodeAnswer(1)
    \/ VerifyStampsResume(1)
    \/ NodeFlip

SpecStamp == StampInit /\ [][StampNext]_vars

\* the hash a stamp output at list position i, output v, has to pay to:
\* HASH160 of the key at path 44/145/i/v below the extended key whose key
\* is destination + d*G and whose chain code is d = SHA-256(payload)
StampHash(serialized_payload, destination_pubkey, i, v) ==
    LET d == DigestScalar(Sha256(serialized_payload))
        master == [public_key |->
                       (destination_pubkey + PublicKeyFromSecret(d))
                           % CurveOrder,
                   chain_code |-> d]
    IN  Hash160(derive_pub(master, <<44, 145, i, v>>).public_key)

\* what is wrong with vout number j of outpoint number i (both 1-based)
VoutFault(stamp_outpoints, serialized_payload, destination_pubkey, i, j) ==
    LET tx == stamp_outpoints[i].stamp_tx
        v == stamp_outpoints[i].vouts[j]
    IN  IF ~tx.decodes THEN "Decode"
        ELSE IF v >= Len(tx.output) THEN "MissingOutput"
        ELSE IF ~tx.output[v + 1].p2pkh THEN "NotP2PKH"
        ELSE IF tx.output[v + 1].hash
                  # StampHash(serialized_payload, destination_pubkey, i - 1, v)
             THEN "UnexpectedAddress"
             ELSE "Ok"

StampPositions(stamp_outpoints) ==
    {<<i, j>> : i \in 1..Len(stamp_outpoints), j \in 1..MaxVouts} \cap
    {ij \in (1..MaxOutpoints) \X (1..MaxVouts) :
        /\ ij[1] <= Len(stamp_outpoints)
        /\ ij[2] <= Len(stamp_outpoints[ij[1]].vouts)}

\* C10: verify_stamps returns Ok only if every listed vout of every
\* outpoint names an existing P2PKH output of a decodable transaction that
\* pays to HASH160 of the key derived at 44/145/i/v (and the combined
\* key is no point at infinity); it returns
\* MissingOutput, NotP2PKH or UnexpectedAddress only if some listed vout
\* has that fault; and with all of them faultless and the node accepting
\* the transactions it does return Ok.
C10_VerifyStampsChecksEveryVout ==
    resp.op = "verify_stamps" =>
        LET o == resp.args[1]
            p == resp.args[2]
            k == resp.args[3]
            faults == {VoutFault(o, p, k, ij[1], ij[2]) :
                           ij \in StampPositions(o)}
            degenerate ==
                (k + PublicKeyFromSecret(DigestScalar(Sha256(p))))
                    % CurveOrder = 0
        IN  /\ resp.ret = "Ok" =>
                /\ faults \subseteq {"Ok"}
                /\ \A i \in 1..Len(o) : o[i].stamp_tx.decodes
                /\ ~degenerate
            /\ resp.ret \in {"MissingOutput", "NotP2PKH", "UnexpectedAddress"}
                  => resp.ret \in faults
            /\ ( /\ faults \subseteq {"Ok"}
                 /\ \A i \in 1..Len(o) : o[i].stamp_tx.decodes
                 /\ ~degenerate
                 /\ resp.task.err = "" )
                  => resp.ret = "Ok"

\* a stamp of two outpoints with vouts, each paying to the derived key,
\* is accepted
C10_Witness ==
    /\ resp.op = "verify_stamps"
    /\ resp.ret = "Ok"
    /\ Len(resp.args[1]) = 2
    /\ resp.args[1][1].vouts # <<>>
    /\ resp.args[1][2].vouts # <<>>

---------------------------------------------------------------------------
(* PUT /messages/{addr} with websocket subscribers and reads *)

PutAddrs == {Hash160(k) : k \in PubKeys}

\* an outpoint whose output 0 pays to the key derived for the payload, and
\* one whose output 0 is no P2PKH script
GoodOutpoint(serialized_payload) ==
    [stamp_tx |-> Tx(<<P2PKH(StampHash(serialized_payload,
                                       serialized_payload.destination,
                                       0, 0))>>),
     vouts |-> <<0>>]
BadOutpoint == [stamp_tx |-> Tx(<<OtherScript>>), vouts |-> <<0>>]

\* bytes that are no Payload
NotAPayload == [destination |-> 0 - 1, long |-> FALSE]

PutMessages ==
    UNION {{Message(k, p, o) :
                k \in PubKeys,
                o \in {<<>>, <<GoodOutpoint(p)>>, <<BadOutpoint>>}} :
           p \in Payloads}
    \cup {Message(1, NotAPayload, <<>>)}
\* the message sets a client sends: one message, or one message followed
\* by a short one without stamp or with a bad stamp
PutMessageSets ==
    {<<m>> : m \in PutMessages} \cup
    {<<m, Message(k, [destination |-> 1, long |-> FALSE], o)>> :
         m \in PutMessages, k \in PubKeys, o \in {<<>>, <<BadOutpoint>>}}

\* the stamp transactions of a message set
SetTxs(messages) ==
    UNION {{messages[i].stamp_outpoints[j].stamp_tx :
                j \in 1..Len(messages[i].stamp_outpoints)} :
           i \in 1..Len(messages)}

\* the node rejects the stamp transactions of the long payloads
PutRejects == {GoodOutpoint(p).stamp_tx : p \in {q \in Payloads : q.long}}

PutInit ==
    /\ db = <<>>
    /\ resp = [op |-> "none", args |-> <<>>, ret |-> <<>>]
    /\ nops = 0
    /\ node = [NodeInit EXCEPT !.rejects = PutRejects]
    /\ msg_bus = <<>>
    /\ feed_bus = <<>>
    /\ wallet = WalletInit
    /\ ws = WsInit
    /\ tasks = <<>>

\* a websocket client subscribes to the messages of an address
Subscribe(a) ==
    /\ a \notin DOMAIN msg_bus
    /\ msg_bus' = [c \in DOMAIN msg_bus \cup {a} |->
                       IF c = a THEN <<>> ELSE msg_bus[c]]
    /\ resp' = [op |-> "subscribe", args |-> <<a>>, ret |-> <<>>]
    /\ UNCHANGED <<db, nops, node, feed_bus, wallet, ws, tasks>>

\* PUT /messages/{addr}: put_message runs to the first send_tx of a stamp,
\* or to its end when no stamp is to be broadcast; a PUT counts for two
\* operations
PutMessage(addr, messages, timestamp) ==
    /\ nops + 2 <= MaxOps
    /\ \E r \in {put_message(addr, messages, db, Answering(node), msg_bus,
                              timestamp, MESSAGE_NAMESPACE)} :
       \E task \in {Task("put", <<addr, messages>>, CallsOf(node, r.node),
                          <<>>)} :
          IF task.plan = <<>>
          THEN /\ resp' = [op |-> "put",
                            args |-> <<addr, messages, timestamp>>,
                            ret |-> [status |-> r.status, error |-> r.error],
                            task |-> task]
               /\ db' = r.db
               /\ msg_bus' = r.bus
               /\ tasks' = tasks
          ELSE /\ resp' = [op |-> "await", args |-> task.args, ret |-> <<>>]
               /\ tasks' = Append(tasks, task)
               /\ UNCHANGED <<db, msg_bus>>
    /\ nops' = nops + 2
    /\ UNCHANGED <<node, feed_bus, wallet, ws>>

\* put_message goes on after its last send_tx, or returns the TxReject of
\* the send_tx that failed; get_unix_now() is read after the broadcasts
PutMessageResume(i, timestamp) ==
    /\ i \in 1..Len(tasks)
    /\ tasks[i].op = "put"
    /\ ~Pending(tasks[i])
    /\ \E r \in {put_message(tasks[i].args[1], tasks[i].args[2], db,
                              Seen(node, tasks[i]), msg_bus, timestamp,
                              MESSAGE_NAMESPACE)} :
          /\ resp' = [op |-> "put",
                      args |-> <<tasks[i].args[1], tasks[i].args[2],
                                 timestamp>>,
                      ret |-> [status |-> r.status, error |-> r.error],
                      task |-> tasks[i]]
          /\ db' = r.db
          /\ msg_bus' = r.bus
    /\ tasks' = RemoveAt(tasks, i)
    /\ UNCHANGED <<nops, node, feed_bus, wallet, ws>>

PutDigests == {Sha256(p) : p \in Payloads}

PutNext ==
    \/ \E a \in PutAddrs : Subscribe(a)
    \/ \E a \in PutAddrs, ms \in PutMessageSets, t \in Times :
          PutMessage(a, ms, t)
    \/ NodeAnswer(1)
    \/ \E t \in Times : PutMessageResume(1, t)
    \/ NodeFlip
    \/ \E a \in PutAddrs, dg \in PutDigests :
          GetByDigest(a, MESSAGE_NAMESPACE, dg)
    \/ \E a \in PutAddrs, s \in Times, oe \in OptTimes :
          GetRange(a, MESSAGE_NAMESPACE, s, oe)

SpecPut == PutInit /\ [][PutNext]_vars

\* C7: a stored message keeps the payload it was sent with: the payload of
\* every message row, and of every message a read by digest or by range
\* returns, hashes to the payload digest of the message; only the frames on
\* the bus carry truncated payloads.
C7_StoredPayloadIntact ==
    /\ \A k \in DOMAIN db :
          k[2] = MESSAGE_NAMESPACE =>
              Sha256(db[k].serialized_payload) = db[k].payload_digest
    /\ (resp.op = "get_digest" /\ resp.ret # None) =>
          Sha256(resp.ret[1].serialized_payload) = resp.ret[1].payload_digest
    /\ resp.op = "get_range" =>
          \A i \in 1..Len(resp.ret.messages) :
              Sha256(resp.ret.messages[i].serialized_payload)
                  = resp.ret.messages[i].payload_digest

\* the frames a step appends to the channel of c
Added(c) == SubSeq(msg_bus'[c], Len(msg_bus[c]) + 1, Len(msg_bus'[c]))

\* the (sender key, payload digest) pairs of the messages of a frame, and
\* of the messages of a request
FrameIds(frame) ==
    [i \in 1..Len(frame.messages) |->
        <<frame.messages[i].sender_pub_key, frame.messages[i].payload_digest>>]
RequestIds(messages) ==
    [i \in 1..Len(messages) |->
        <<messages[i].sender_pub_key, Sha256(messages[i].serialized_payload)>>]
IdsOf(messages, c) ==
    LET FromC(id) == Hash160(id[1]) = c
    IN  SelectSeq(RequestIds(messages), FromC)

PutAccepted == resp'.op = "put" /\ resp'.ret.status = 200

\* C8 (as the code has it): an accepted PUT sends the whole set on the
\* channel of the destination, and then, for every source address of the
\* set, the messages of that source on the channel of that source, self-send
\* or not; a rejected PUT sends nothing.
C8_BroadcastToDestinationAndSources ==
    [][resp'.op = "put" =>
         /\ DOMAIN msg_bus' = DOMAIN msg_bus
         /\ \A c \in DOMAIN msg_bus :
              LET addr == resp'.args[1]
                  ms == resp'.args[2]
                  frames == Added(c)
                  toDest == IF c = addr THEN <<RequestIds(ms)>> ELSE <<>>
                  toSource == IF IdsOf(ms, c) # <<>>
                              THEN <<IdsOf(ms, c)>> ELSE <<>>
              IN  IF resp'.ret.status = 200
                  THEN /\ [i \in 1..Len(frames) |-> FrameIds(frames[i])]
                              = toDest \o toSource
                       /\ \A i \in 1..Len(frames) :
                              frames[i].server_time = resp'.args[3]
                  ELSE frames = <<>>]_vars

\* C8 (as stated): the channel of an address other than the destination
\* gets a frame only for a self-send, that is, never
C8_SourceChannelOnlyOnSelfSend ==
    [][PutAccepted =>
         \A c \in DOMAIN msg_bus :
            IF c = resp'.args[1]
            THEN Len(Added(c)) = 1
            ELSE Added(c) = <<>>]_vars

\* an accepted PUT for one address with a message of another sender, both
\* addresses having subscribers
C8_Witness ==
    /\ resp.op = "put"
    /\ resp.ret.status = 200
    /\ resp.args[1] \in DOMAIN msg_bus
    /\ \E i \in 1..Len(resp.args[2]) :
          LET source == Hash160(resp.args[2][i].sender_pub_key)
          IN  /\ source # resp.args[1]
              /\ source \in DOMAIN msg_bus
              /\ msg_bus[source] # <<>>

\* the stamp of message i of a request is valid: the destination of the
\* payload is a public key and every listed vout pays to the derived key
StampValid(message) ==
    LET o == message.stamp_outpoints
        p == message.serialized_payload
    IN  /\ IsPublicKey(p.destination)
        /\ o # <<>> => MasterPk(p, p.destination) # None
        /\ \A ij \in StampPositions(o) :
              VoutFault(o, p, p.destination, ij[1], ij[2]) = "Ok"
        /\ \A i \in 1..Len(o) : o[i].stamp_tx.decodes

\* the stamp transactions of the messages not sent by addr, in order
RECURSIVE StampTxsOfOthers(_, _)
StampTxsOfOthers(addr, messages) ==
    IF messages = <<>> THEN <<>>
    ELSE LET m == Head(messages)
             txs == IF Hash160(m.sender_pub_key) = addr THEN <<>>
                    ELSE [j \in 1..Len(m.stamp_outpoints) |->
                             m.stamp_outpoints[j].stamp_tx]
         IN  txs \o StampTxsOfOthers(addr, Tail(messages))

\* xs is a subsequence of ys
RECURSIVE InOrder(_, _)
InOrder(xs, ys) ==
    IF xs = <<>> THEN TRUE
    ELSE IF ys = <<>> THEN FALSE
    ELSE IF Head(xs) = Head(ys) THEN InOrder(Tail(xs), Tail(ys))
    ELSE InOrder(xs, Tail(ys))

\* C9: a PUT whose messages are all self-sends is accepted and stored
\* whatever their stamps are, and broadcasts nothing; a PUT is accepted only
\* if the stamp of every message of another sender is valid, the node has
\* then accepted the stamp transactions of those messages and no others of
\* the request, and a rejected PUT stores nothing.
C9_StampsVerifiedUnlessSelfSend ==
    [][resp'.op = "put" =>
         LET addr == resp'.args[1]
             ms == resp'.args[2]
             self(i) == Hash160(ms[i].sender_pub_key) = addr
         IN  /\ (\A i \in 1..Len(ms) : self(i)) =>
                   /\ resp'.ret.status = 200
                   /\ resp'.task.plan = <<>>
                   /\ node' = node
             /\ resp'.ret.status = 200 =>
                   /\ \A i \in 1..Len(ms) : ~self(i) => StampValid(ms[i])
                   /\ Accepted(resp'.task) = StampTxsOfOthers(addr, ms)
                   /\ InOrder(StampTxsOfOthers(addr, ms), node'.sent)
                   /\ \A i \in 1..Len(ms) :
                         msg_key(addr, resp'.args[3],
                                 Sha256(ms[i].serialized_payload),
                                 MESSAGE_NAMESPACE) \in DOMAIN db'
             /\ resp'.ret.status # 200 => db' = db]_vars

\* an accepted PUT of a validly stamped message of another sender followed
\* by a self-send with a bad stamp
C9_Witness ==
    /\ resp.op = "put"
    /\ resp.ret.status = 200
    /\ Len(resp.args[2]) = 2
    /\ Hash160(resp.args[2][1].sender_pub_key) # resp.args[1]
    /\ resp.args[2][1].stamp_outpoints # <<>>
    /\ Hash160(resp.args[2][2].sender_pub_key) = resp.args[1]
    /\ resp.args[2][2].stamp_outpoints = <<BadOutpoint>>
    /\ Len(node.sent) = 1

---------------------------------------------------------------------------
(* The relay server answering requests *)

\* the tokens a client may hold, and the Authorization headers it may send
Auths ==
    {None} \cup {Some(PopHeader(construct_token(a))) : a \in PutAddrs}

Headers(auth) == [authorization |-> auth, accept |-> TRUE, content_type |-> TRUE]

\* the Content-Length a client sends with a request of ordinary size
BodySize == 100

Request(method, path, headers, query, body, upgrade) ==
    [method |-> method, path |-> path, headers |-> headers,
     query |-> query, body |-> body, upgrade |-> upgrade,
     content_length |-> Some(BodySize)]

NoBody == [kind |-> "none", value |-> [empty |-> TRUE]]

RestPaths ==
    {<<r, "addr11">> : r \in {"messages", "feeds", "payloads", "profiles"}}
      \cup {<<"messages", "nonsense">>}
WsPaths ==
    {<<"ws", "messages", "addr11">>, <<"ws", "feeds", "addr11">>,
     <<"ws", "addr11">>}

ShortPayload == [destination |-> 1, long |-> FALSE]

RelayQueries ==
    {[NoQuery EXCEPT !.start_time = Some(1)],
     [NoQuery EXCEPT !.digest = Some(Hex(Sha256(ShortPayload)))],
     [NoQuery EXCEPT !.start_time = Some(1),
                     !.access_token =
                         Some(PopHeader(construct_token(Hash160(1))))]}

RelayBodies ==
    {[kind |-> "MessageSet",
      value |-> [messages |-> <<Message(1, ShortPayload, <<>>)>>]],
     [kind |-> "AuthWrapper",
      value |-> [public_key |-> 1, scheme |-> ECDSA,
                 signature |-> Sign(1, Sha256(ShortPayload)),
                 payload |-> ShortPayload, payload_digest |-> <<>>]]}

\* a profile signed by key 2, whose address is not addr11
ForeignProfile ==
    [kind |-> "AuthWrapper",
     value |-> [public_key |-> 2, scheme |-> ECDSA,
                signature |-> Sign(2, Sha256(ShortPayload)),
                payload |-> ShortPayload, payload_digest |-> <<>>]]

\* a transaction paying an amount to the n-th address of the node
PayTx(n, value) == Tx(<<TxOut(NodeAddr(n), value)>>)

Payments ==
    [merchant_data : {None, Some(Hash160(1))},
     transactions : {<<PayTx(1, TokenFee)>>, <<PayTx(2, TokenFee)>>,
                     <<PayTx(1, TokenFee - 1)>>, <<MalformedTx>>,
                     <<PayTx(1, TokenFee), PayTx(2, 1)>>}]

\* a payment of the invoice of addr11 with the first address of the node
GoodPayment ==
    [kind |-> "Payment",
     value |-> [merchant_data |-> Some(Hash160(1)),
                transactions |-> <<PayTx(1, TokenFee)>>]]

\* a message of key 2 for key 1 with a valid stamp
StampedBody ==
    [kind |-> "MessageSet",
     value |-> [messages |->
                  <<Message(2, ShortPayload, <<GoodOutpoint(ShortPayload)>>)>>]]

ValidAuth == Headers(Some(PopHeader(construct_token(Hash160(1)))))

\* requests the filters in front of the handlers reject or let pass: a
\* body above the limit, no Content-Length, a query that does not
\* deserialize, an upgrade that is no GET, a path below /payments; and a
\* PUT of a stamped message
FilterRequests ==
    {[Request("PUT", <<"profiles", "addr11">>, ValidAuth, NoQuery,
              CHOOSE b \in RelayBodies : b.kind = "AuthWrapper", FALSE)
         EXCEPT !.content_length = Some(profile_size + 1)],
     [Request("PUT", <<"messages", "addr11">>, ValidAuth, NoQuery,
              CHOOSE b \in RelayBodies : b.kind = "MessageSet", FALSE)
         EXCEPT !.content_length = None],
     [Request("PUT", <<"messages", "addr11">>, Headers(None), NoQuery,
              CHOOSE b \in RelayBodies : b.kind = "MessageSet", FALSE)
         EXCEPT !.content_length = Some(message_size + 1)],
     Request("GET", <<"messages", "addr11">>, ValidAuth,
             [NoQuery EXCEPT !.start_time = Some(0 - 1)], NoBody, FALSE),
     Request("POST", <<"ws", "messages", "addr11">>, ValidAuth, NoQuery,
             NoBody, TRUE),
     Request("POST", <<"payments", "x">>, Headers(None), NoQuery,
             GoodPayment, FALSE),
     [Request("POST", <<"payments">>, Headers(None), NoQuery,
              GoodPayment, FALSE)
         EXCEPT !.content_length = Some(profile_size + 1)],
     Request("PUT", <<"messages", "addr11">>, Headers(None), NoQuery,
             StampedBody, FALSE)}

\* GET / and POST /
RootRequests ==
    {Request(m, <<>>, Headers(None), NoQuery, NoBody, FALSE) :
        m \in {"GET", "POST"}}

\* a message of key 1 to itself whose payload is no Payload
SelfSentBytes ==
    [kind |-> "MessageSet",
     value |-> [messages |-> <<Message(1, NotAPayload, <<>>)>>]]

PaymentRequests ==
    {Request("POST", <<"payments">>, Headers(None), NoQuery,
             [kind |-> "Payment", value |-> p], FALSE) : p \in Payments}
      \cup
    {Request("POST", <<"payments">>, [Headers(None) EXCEPT !.accept = FALSE],
             NoQuery, NoBody, FALSE),
     Request("POST", <<"payments">>, Headers(None), NoQuery, NoBody, FALSE)}

RelayRequests ==
    {Request(m, p, Headers(a), q, NoBody, FALSE) :
        m \in {"GET", "DELETE"}, p \in RestPaths, a \in Auths,
        q \in RelayQueries}
      \cup
    {Request("PUT", p, Headers(a), NoQuery, b, FALSE) :
        p \in RestPaths, a \in Auths, b \in RelayBodies}
      \cup
    {Request("GET", p, Headers(a), NoQuery, NoBody, TRUE) :
        p \in WsPaths, a \in Auths}
      \cup PaymentRequests
      \cup {Request("GET", <<"nowhere", "addr11">>, Headers(None), NoQuery,
                     NoBody, FALSE),
             Request("PUT", <<"profiles", "addr11">>,
                     Headers(Some(PopHeader(construct_token(Hash160(1))))),
                     NoQuery, ForeignProfile, FALSE)}
      \cup FilterRequests
      \cup RootRequests
      \cup {Request("PUT", <<"messages", "addr11">>, Headers(None), NoQuery,
                     SelfSentBytes, FALSE)}

\* the node rejects the payments of one satoshi less than the fee
RelayRejects == {PayTx(1, TokenFee - 1)}

RelayInit ==
    /\ db = <<>>
    /\ resp = [op |-> "none", args |-> <<>>, ret |-> <<>>]
    /\ nops = 0
    /\ node = [NodeInit EXCEPT !.rejects = RelayRejects]
    /\ msg_bus = <<>>
    /\ feed_bus = <<>>
    /\ wallet = WalletInit
    /\ ws = WsInit
    /\ tasks = <<>>

\* the handlers of the relay server that may wait for the node at a time
MaxTasks == 2

\* the state a request is answered in, with node n and wallet w
ServerState(n, w) ==
    [db |-> db, node |-> n, msg_bus |-> msg_bus, feed_bus |-> feed_bus,
     wallet |-> w]

\* the root handler opens the file on a GET of the root path only
OpenedBy(req) ==
    IF req.path = <<>> /\ req.method = "GET" THEN IndexHtml ELSE {"NotFound"}

\* the server takes a request and runs its filters and handler to the
\* first call of the node, or to the answer when the node is not called.
\* What the handler did before the call (the wallet entry a payment
\* consumes) is done; the task holds the wallet the handler has read.
Serve(req, timestamp) ==
    /\ \E index_html \in OpenedBy(req) :
       \E r \in {rest_api(req, ServerState(Answering(node), wallet),
                           timestamp, index_html)} :
       \E plan \in {CallsOf(node, r.st.node)} :
          IF plan = <<>>
          THEN /\ resp' = [op |-> "request", args |-> <<req, timestamp>>,
                            ret |-> r.resp, ran |-> r.ran,
                            task |-> Task("request", <<req>>, plan, None)]
               /\ db' = r.st.db
               /\ msg_bus' = r.st.msg_bus
               /\ feed_bus' = r.st.feed_bus
               /\ wallet' = r.st.wallet
               /\ tasks' = tasks
          ELSE /\ Len(tasks) < MaxTasks
               /\ \E before \in
                      {rest_api(req,
                                ServerState([node EXCEPT !.up = FALSE], wallet),
                                timestamp, index_html).st.wallet} :
                     /\ wallet' = before
                     /\ tasks' = Append(tasks,
                            Task("request", <<req>>, plan,
                                 IF before = wallet THEN None
                                 ELSE Some(wallet)))
               /\ resp' = [op |-> "await", args |-> <<req>>, ret |-> <<>>]
               /\ UNCHANGED <<db, msg_bus, feed_bus>>
    /\ UNCHANGED <<node, ws>>
    /\ nops' = nops + 1

\* the handler of a request goes on after the last answer of the node, or
\* with the error of the call that failed, and the request is answered
ServeResume(i, timestamp) ==
    /\ i \in 1..Len(tasks)
    /\ tasks[i].op = "request"
    /\ ~Pending(tasks[i])
    /\ \E index_html \in OpenedBy(tasks[i].args[1]) :
       \E r \in {rest_api(tasks[i].args[1],
                           ServerState(Seen(node, tasks[i]),
                                       IF tasks[i].held = None THEN wallet
                                       ELSE tasks[i].held[1]),
                           timestamp, index_html)} :
          /\ resp' = [op |-> "request",
                      args |-> <<tasks[i].args[1], timestamp>>,
                      ret |-> r.resp, ran |-> r.ran, task |-> tasks[i]]
          /\ db' = r.st.db
          /\ msg_bus' = r.st.msg_bus
          /\ feed_bus' = r.st.feed_bus
          /\ wallet' = IF tasks[i].held = None THEN r.st.wallet ELSE wallet
    /\ tasks' = RemoveAt(tasks, i)
    /\ UNCHANGED <<nops, node, ws>>

\* the timeout of a wallet entry elapses
Cleanup(task) ==
    /\ task \in wallet.cleanups
    /\ wallet' = cleanup(wallet, task)
    /\ resp' = [op |-> "cleanup", args |-> <<task>>, ret |-> <<>>]
    /\ UNCHANGED <<db, nops, node, msg_bus, feed_bus, ws, tasks>>

MaxRequests == 2

RelayNext ==
    \/ /\ nops < MaxRequests
       /\ \E req \in RelayRequests :
             \E t \in (IF req.method = "PUT" THEN Times ELSE {1}) :
                Serve(req, t)
    \/ \E task \in wallet.cleanups : Cleanup(task)
    \/ \E i \in 1..MaxTasks : NodeAnswer(i)
    \/ \E i \in 1..Len(tasks) :
          \E t \in (IF tasks[i].args[1].method = "PUT" THEN Times ELSE {1}) :
             ServeResume(i, t)
    \/ NodeFlip

SpecRelay == RelayInit /\ [][RelayNext]_vars

\* the requests of a client that is invoiced for addr11 and pays, and of
\* a client that holds the token
InvoiceRequests ==
    {Request("GET", <<"messages", "addr11">>, Headers(None),
             [NoQuery EXCEPT !.start_time = Some(1)], NoBody, FALSE),
     Request("GET", <<"messages", "addr11">>, ValidAuth,
             [NoQuery EXCEPT !.start_time = Some(1)], NoBody, FALSE)}
      \cup PaymentRequests
      \cup {req \in FilterRequests : Head(req.path) = "payments"}

PaymentsNext ==
    \/ /\ nops < MaxOps
       /\ \E req \in InvoiceRequests : Serve(req, 1)
    \/ \E task \in wallet.cleanups : Cleanup(task)
    \/ \E i \in 1..MaxTasks : NodeAnswer(i)
    \/ \E i \in 1..MaxTasks : ServeResume(i, 1)
    \/ NodeFlip

\* invoices and payments, with two handlers waiting for the node at a time
SpecPayments == RelayInit /\ [][PaymentsNext]_vars

\* the query string and the Content-Length of a request are what the
\* route of a handler asks for
WellFormedFor(name, req) ==
    \A i \in 1..Len(Routes) :
       Routes[i].name = name =>
          /\ Routes[i].query => Query_deserializes(req.query)
          /\ Routes[i].limit # None =>
                content_length_limit(Routes[i].limit[1], req) = None

\* the handler of the protected route a request is for ("" when it is for
\* none): GET/DELETE /messages, PUT/DELETE /feeds, GET /payloads,
\* PUT /profiles and the upgrade at /ws/messages, with a decodable address
RouteOf(req) ==
    LET last == req.path[Len(req.path)]
        kind == SubSeq(req.path, 1, Len(req.path) - 1)
    IN  IF req.path = <<>> THEN ""
        ELSE IF address_decode(last) = None THEN ""
        ELSE IF kind = <<"ws", "messages">> /\ req.upgrade /\ req.method = "GET"
        THEN "websocket_messages"
        ELSE IF req.upgrade THEN ""
        ELSE IF kind = <<"messages">> /\ req.method = "GET" THEN "messages_get"
        ELSE IF kind = <<"messages">> /\ req.method = "DELETE"
        THEN "messages_delete"
        ELSE IF kind = <<"feeds">> /\ req.method = "PUT" THEN "feeds_put"
        ELSE IF kind = <<"feeds">> /\ req.method = "DELETE" THEN "feeds_delete"
        ELSE IF kind = <<"payloads">> /\ req.method = "GET" THEN "payloads_get"
        ELSE IF kind = <<"profiles">> /\ req.method = "PUT" THEN "profile_put"
        ELSE ""

\* the same, for the requests that pass the other filters of the route
ProtectedHandler(req) ==
    IF WellFormedFor(RouteOf(req), req) THEN RouteOf(req) ELSE ""

Ran(handler, r) == \E i \in 1..Len(r.ran) : r.ran[i] = handler

\* the token of a request validates for the address
TokenValid(req, addr) ==
    /\ req.headers.authorization # None
    /\ req.headers.authorization[1].scheme = "POP"
    /\ validate_token(addr, req.headers.authorization[1].token)

\* C1: on the protected routes the handler runs only for a request whose
\* token validates for the address of the URL; a request without token is
\* answered 402 with a payment request for that address, a request whose
\* token does not validate is answered 400, and in both cases the handler
\* does not run and the store is unchanged.
C1_ProtectedRoutesRequireToken ==
    [][(resp'.op = "request" /\ ProtectedHandler(resp'.args[1]) # "") =>
         LET req == resp'.args[1]
             h == ProtectedHandler(req)
             addr == address_decode(req.path[Len(req.path)])[1]
         IN  /\ Ran(h, resp') => TokenValid(req, addr)
             /\ req.headers.authorization = None =>
                   /\ resp'.ret.status = 402
                   /\ resp'.ret.body.merchant_data = Some(addr)
                   /\ ~Ran(h, resp')
                   /\ db' = db
             /\ (req.headers.authorization # None /\ ~TokenValid(req, addr)) =>
                   /\ resp'.ret.status = 400
                   /\ ~Ran(h, resp')
                   /\ db' = db]_vars

\* a step that answers a well-formed POST /payments
PaymentStep ==
    /\ resp'.op = "request"
    /\ resp'.args[1].path # <<>>
    /\ Head(resp'.args[1].path) = "payments"
    /\ resp'.args[1].method = "POST"
    /\ content_length_limit(profile_size, resp'.args[1]) = None
    /\ preprocess_payment(resp'.args[1].headers, resp'.args[1].body) = "Ok"

\* the wallet as the handler of the request answered by this step found it
HeldWallet ==
    IF resp'.task.held # None THEN resp'.task.held[1] ELSE wallet

\* the payment pays every output of a list
Pays(payment, outputs) ==
    /\ \A i \in 1..Len(payment.transactions) : payment.transactions[i].decodes
    /\ \A i \in 1..Len(outputs) :
          \E j \in 1..Len(payment.transactions) :
             \E k \in 1..Len(payment.transactions[j].output) :
                 /\ payment.transactions[j].output[k].p2pkh
                 /\ outputs[i].script.p2pkh
                 /\ payment.transactions[j].output[k].hash
                       = outputs[i].script.hash
                 /\ Some(payment.transactions[j].output[k].value)
                       = outputs[i].amount

\* the response carries "Authorization: POP <token>" with a token that
\* validates for the subject
GrantsToken(response, subject) ==
    /\ response.status = 200
    /\ response.headers.authorization # None
    /\ response.headers.authorization[1].scheme = "POP"
    /\ validate_token(subject, response.headers.authorization[1].token)

\* C2 (as the code has it): a POST /payments naming address A whose
\* transactions pay the outputs the wallet holds for A when the handler
\* reads it is answered 200 with a token that validates for A, provided
\* the node accepts the transactions, and the handler has consumed the
\* entry before the first broadcast; the wallet holds the entry of a 402
\* until it expires, is replaced by a later 402 for A, or is consumed by a
\* payment. Any other payment is answered without a token.
C2_PaymentOfHeldInvoiceGrantsToken ==
    [][PaymentStep =>
         LET payment == resp'.args[1].body.value
             A == payment.merchant_data
             held == /\ A # None
                     /\ A[1] \in DOMAIN HeldWallet.entries
                     /\ Pays(payment, HeldWallet.entries[A[1]].outputs)
             accepted == resp'.task.err = ""
         IN  /\ (held /\ accepted) =>
                   /\ GrantsToken(resp'.ret, A[1])
                   /\ resp'.task.held # None
                   /\ Accepted(resp'.task) = payment.transactions
                   /\ InOrder(payment.transactions, node'.sent)
             /\ ~(held /\ accepted) =>
                   /\ resp'.ret.status # 200
                   /\ resp'.ret.headers.authorization = None]_vars

\* C2 (as stated): while the timeout of a 402 for A has not elapsed and the
\* wallet holds an entry for A, a payment of the output which that 402
\* invoiced is answered 200 with a token for A.  Every 402 invoices a new
\* address of the node and schedules one cleanup: when the wallet has as
\* many cleanups pending as the node has handed out addresses, all of them
\* for A, every address handed out is the output of an unexpired 402 for A.
C2_PaymentOfUnexpiredInvoiceGrantsToken ==
    [][PaymentStep =>
         LET payment == resp'.args[1].body.value
             A == payment.merchant_data
         IN  \A k \in 1..node.addrs :
                ( /\ A # None
                  /\ Cardinality(HeldWallet.cleanups) = node.addrs
                  /\ \A task \in HeldWallet.cleanups : task.subject = A[1]
                  /\ A[1] \in DOMAIN HeldWallet.entries
                  /\ Pays(payment,
                          <<[amount |-> Some(TokenFee),
                             script |-> [p2pkh |-> TRUE,
                                         hash |-> NodeAddr(k)]]>>)
                  /\ resp'.task.err = "" )
                   => GrantsToken(resp'.ret, A[1])]_vars

\* a payment has been answered with a token after the invoice of the
\* address had been replaced once
C2_Witness ==
    /\ resp.op = "request"
    /\ resp.args[1].path = <<"payments">>
    /\ resp.ret.status = 200
    /\ GrantsToken(resp.ret, Hash160(1))
    /\ wallet.next = 2
    /\ Len(node.sent) = 1

\* a step that answers 200 to the PUT of a profile
ProfilePutStep ==
    /\ resp'.op = "request"
    /\ resp'.args[1].method = "PUT"
    /\ Len(resp'.args[1].path) = 2
    /\ resp'.args[1].path[1] = "profiles"
    /\ Ran("profile_put", resp')
    /\ resp'.ret.status = 200

\* C13: after an accepted PUT /profiles/{addr} of a wrapper with a payload
\* and an empty payload_digest, GET /profiles/{addr} returns the encoding
\* of the wrapper with payload_digest set to SHA256(payload).
C13_ProfileStoredWithDigest ==
    [][ProfilePutStep =>
         LET W == resp'.args[1].body.value
             addr == address_decode(resp'.args[1].path[2])[1]
         IN  (W.payload # EmptyPayload /\ W.payload_digest = <<>>) =>
                get_profile(addr, [db |-> db']).resp.body
                  = [kind |-> "AuthWrapper",
                     value |-> [W EXCEPT !.payload_digest = Sha256(W.payload)]]
      ]_vars

\* the token a request presents in its query string validates for the
\* address
QueryTokenValid(req, addr) ==
    /\ req.query.access_token # None
    /\ split_pop_token(req.query.access_token[1]) # None
    /\ validate_token(addr, split_pop_token(req.query.access_token[1])[1])

\* C14: on every protected route a token that validates for the address
\* grants access, whether it comes in the Authorization header or in the
\* access_token parameter of the query string.
C14_TokenFromHeaderOrQuery ==
    [][(resp'.op = "request" /\ ProtectedHandler(resp'.args[1]) # "") =>
         LET req == resp'.args[1]
             h == ProtectedHandler(req)
             addr == address_decode(req.path[Len(req.path)])[1]
         IN  (TokenValid(req, addr) \/ QueryTokenValid(req, addr))
                => Ran(h, resp')]_vars

---------------------------------------------------------------------------
(* AuthWrapper::parse and ParsedAuthWrapper::verify applied to wrappers *)

AuthPayloads ==
    {[destination |-> 1, long |-> FALSE], [destination |-> 2, long |-> TRUE]}

\* payload_digest fields: none, the digests of the payloads and of the
\* empty payload, and fields of 16 and of 48 bytes
AuthDigests ==
    {<<>>, <<7>>, <<1, 2, 3>>, Sha256(EmptyPayload)}
      \cup {Sha256(p) : p \in AuthPayloads}

AuthSignatures ==
    {Sign(k, d) : k \in PubKeys, d \in AuthDigests \ {<<>>, <<7>>, <<1, 2, 3>>}}
      \cup {[compact |-> FALSE, signer |-> 0, msg |-> <<0, 0>>]}

AuthSchemes == {SCHNORR, ECDSA, "Other"}

\* public_key 0 is no point of the curve
AuthWrappers(payloads) ==
    [public_key : {0} \cup PubKeys, scheme : AuthSchemes,
     signature : AuthSignatures, payload : payloads,
     payload_digest : AuthDigests]

AuthInit == StoreInit

\* parse, and verify of both crates on what it yields
ParseVerify(wrapper) ==
    /\ \E r \in {parse(wrapper)} :
          resp' = [op |-> "parse", args |-> <<wrapper>>, ret |-> r,
                   verified |->
                      IF r.err # "" THEN <<>>
                      ELSE <<verify(r.parsed),
                             cashweb_auth_wrapper_verify(r.parsed)>>]
    /\ UNCHANGED <<db, nops, node, msg_bus, feed_bus, wallet, ws, tasks>>

ParseWithPayload ==
    /\ resp.op = "none"
    /\ \E wrapper \in AuthWrappers(AuthPayloads) : ParseVerify(wrapper)

ParseWithoutPayload ==
    /\ resp.op = "none"
    /\ \E wrapper \in AuthWrappers({EmptyPayload}) : ParseVerify(wrapper)

AuthNext == ParseWithPayload \/ ParseWithoutPayload

SpecAuth == AuthInit /\ [][AuthNext]_vars

\* key, scheme and signature of the wrapper deserialize, so that parse
\* reaches the payload digest
ReachesDigest(wrapper) ==
    /\ IsPublicKey(wrapper.public_key)
    /\ wrapper.scheme \in {SCHNORR, ECDSA}
    /\ wrapper.signature.compact

\* C11: once key, scheme and signature have deserialized, parse fails with
\* DigestAndPayloadMissing on an empty digest with an empty payload, yields
\* SHA256(payload) on an empty digest with a payload, accepts a 32-byte
\* digest exactly when it is SHA256(payload) and fails with
\* FraudulentDigest otherwise, and fails with UnexpectedLengthDigest on any
\* other length; whenever parse succeeds its payload_digest is
\* SHA256(payload).
C11_ParseResolvesDigest ==
    resp.op = "parse" =>
       LET wrapper == resp.args[1]
           r == resp.ret
           len == Len(wrapper.payload_digest)
       IN  /\ r.err = "" => r.parsed.payload_digest = Sha256(wrapper.payload)
           /\ ReachesDigest(wrapper) =>
                 /\ (len = 0 /\ wrapper.payload = EmptyPayload)
                       => r.err = "DigestAndPayloadMissing"
                 /\ (len = 0 /\ wrapper.payload # EmptyPayload) => r.err = ""
                 /\ (len = 2 /\ wrapper.payload_digest = Sha256(wrapper.payload))
                       => r.err = ""
                 /\ (len = 2 /\ wrapper.payload_digest # Sha256(wrapper.payload))
                       => r.err = "FraudulentDigest"
                 /\ len \notin {0, 2} => r.err = "UnexpectedLengthDigest"

\* a 32-byte digest that is not the digest of the payload was refused
C11_Witness ==
    /\ resp.op = "parse"
    /\ Len(resp.args[1].payload_digest) = 2
    /\ resp.args[1].payload # EmptyPayload
    /\ resp.ret.err = "FraudulentDigest"

\* the ECDSA signature of the wrapper verifies under its public key
SignatureVerifies(parsed) ==
    /\ parsed.signature.signer = parsed.public_key
    /\ parsed.signature.msg = parsed.payload_digest

\* C12: every verify of the repository answers UnsupportedScheme for
\* Schnorr and, for ECDSA, Ok exactly when the signature over the
\* payload digest verifies under public_key and InvalidSignature otherwise.
C12_VerifyEcdsaOnly ==
    (resp.op = "parse" /\ resp.ret.err = "") =>
       \A i \in 1..Len(resp.verified) :
          /\ resp.ret.parsed.scheme = SCHNORR
                => resp.verified[i] = "UnsupportedScheme"
          /\ resp.ret.parsed.scheme = ECDSA
                => resp.verified[i] =
                      IF SignatureVerifies(resp.ret.parsed)
                      THEN "Ok" ELSE "InvalidSignature"

---------------------------------------------------------------------------
(* The keyserver.  Its byte strings are modelled byte by byte, as         *)
(* sequences of numbers 0..255, since the code slices them and tests      *)
(* their lengths.                                                          *)

\* n bytes b
Rep(n, b) == [i \in 1..n |-> b]

\* bytes[from..to]
Slice(bytes, from, to) == SubSeq(bytes, from + 1, to)

(* SHA-256 (FIPS 180-4), as ring::digest computes it.  A 32-bit word is   *)
(* held as its two 16-bit halves <<high, low>>.                           *)

\* a AND b of two numbers of n bits
RECURSIVE AndBits(_, _, _)
AndBits(a, b, n) ==
    IF n = 0 THEN 0
    ELSE 2 * AndBits(a \div 2, b \div 2, n - 1) + (a % 2) * (b % 2)

\* the AND of two bytes, tabulated
And8 ==
    [a \in 1..256 |-> [b \in 1..256 |-> AndBits(a - 1, b - 1, 8)] \o <<>>]
      \o <<>>

and16(a, b) ==
    And8[(a \div 256) + 1][(b \div 256) + 1] * 256
      + And8[(a % 256) + 1][(b % 256) + 1]
xor16(a, b) == a + b - 2 * and16(a, b)

and32(x, y) == <<and16(x[1], y[1]), and16(x[2], y[2])>>
xor32(x, y) == <<xor16(x[1], y[1]), xor16(x[2], y[2])>>
not32(x) == <<65535 - x[1], 65535 - x[2]>>
wrapping_add32(x, y) ==
    <<(x[1] + y[1] + (x[2] + y[2]) \div 65536) % 65536, (x[2] + y[2]) % 65536>>

Pow2 == <<1, 2, 4, 8, 16, 32, 64, 128, 256, 512, 1024, 2048, 4096, 8192, 16384, 32768, 65536>>

rotate_right(x, n) ==
    IF n >= 16
    THEN <<(x[2] \div Pow2[n - 15]) + (x[1] % Pow2[n - 15]) * Pow2[33 - n],
           (x[1] \div Pow2[n - 15]) + (x[2] % Pow2[n - 15]) * Pow2[33 - n]>>
    ELSE <<(x[1] \div Pow2[n + 1]) + (x[2] % Pow2[n + 1]) * Pow2[17 - n],
           (x[2] \div Pow2[n + 1]) + (x[1] % Pow2[n + 1]) * Pow2[17 - n]>>
shr(x, n) ==
    IF n >= 16 THEN <<0, x[1] \div Pow2[n - 15]>>
    ELSE <<x[1] \div Pow2[n + 1],
           (x[2] \div Pow2[n + 1]) + (x[1] % Pow2[n + 1]) * Pow2[17 - n]>>

SHA256_K ==
    <<<<17034, 12184>>, <<28983, 17553>>, <<46528, 64463>>, <<59829, 56229>>,
       <<14678, 49755>>, <<23025, 4593>>, <<37439, 33444>>, <<43804, 24277>>,
       <<55303, 43672>>, <<4739, 23297>>, <<9265, 34238>>, <<21772, 32195>>,
       <<29374, 23924>>, <<32990, 45566>>, <<39900, 1703>>, <<49563, 61812>>,
       <<58523, 27073>>, <<61374, 18310>>, <<4033, 40390>>, <<9228, 41420>>,
       <<11753, 11375>>, <<19060, 33962>>, <<23728, 43484>>, <<30457, 35034>>,
       <<38974, 20818>>, <<43057, 50797>>, <<45059, 10184>>, <<48985, 32711>>,
       <<50912, 3059>>, <<54695, 37191>>, <<1738, 25425>>, <<5161, 10599>>,
       <<10167, 2693>>, <<11803, 8504>>, <<19756, 28156>>, <<21304, 3347>>,
       <<25866, 29524>>, <<30314, 2747>>, <<33218, 51502>>, <<37490, 11397>>,
       <<41663, 59553>>, <<43034, 26187>>, <<49739, 35696>>, <<51052, 20899>>,
       <<53650, 59417>>, <<54937, 1572>>, <<62478, 13701>>, <<4202, 41072>>,
       <<6564, 49430>>, <<7735, 27656>>, <<10056, 30540>>, <<13488, 48309>>,
       <<14620, 3251>>, <<20184, 43594>>, <<23452, 51791>>, <<26670, 28659>>,
       <<29839, 33518>>, <<30885, 25455>>, <<33992, 30740>>, <<36039, 520>>,
       <<37054, 65530>>, <<42064, 27883>>, <<48889, 41975>>, <<50801, 30962>>>>

SHA256_H0 ==
    <<<<27145, 58983>>, <<47975, 44677>>, <<15470, 62322>>, <<42319, 62778>>,
       <<20750, 21119>>, <<39685, 26764>>, <<8067, 55723>>, <<23520, 52505>>>>

big_sigma0(x) ==
    xor32(xor32(rotate_right(x, 2), rotate_right(x, 13)), rotate_right(x, 22))
big_sigma1(x) ==
    xor32(xor32(rotate_right(x, 6), rotate_right(x, 11)), rotate_right(x, 25))
small_sigma0(x) ==
    xor32(xor32(rotate_right(x, 7), rotate_right(x, 18)), shr(x, 3))
small_sigma1(x) ==
    xor32(xor32(rotate_right(x, 17), rotate_right(x, 19)), shr(x, 10))
ch(x, y, z) == xor32(and32(x, y), and32(not32(x), z))
maj(x, y, z) == xor32(xor32(and32(x, y), and32(x, z)), and32(y, z))

\* the message schedule with its next word
schedule1(w) ==
    Append(w, wrapping_add32(
                  wrapping_add32(small_sigma1(w[Len(w) - 1]), w[Len(w) - 6]),
                  wrapping_add32(small_sigma0(w[Len(w) - 14]), w[Len(w) - 15])))
\* ... with its next n words, each computed after the one before
RECURSIVE schedule(_, _)
schedule(w, n) ==
    IF n = 1 THEN schedule1(w)
    ELSE Let(schedule(w, n \div 2),
             LAMBDA l : <<l, schedule(l, n - n \div 2)>>[2])

\* round t on the working variables s = <<a, b, c, d, e, f, g, h>>
round(s, w, t) ==
    Let(wrapping_add32(
            wrapping_add32(wrapping_add32(s[8], big_sigma1(s[5])),
                           wrapping_add32(ch(s[5], s[6], s[7]), SHA256_K[t])),
            w[t]),
        LAMBDA t1 :
        Let(wrapping_add32(big_sigma0(s[1]), maj(s[1], s[2], s[3])),
            LAMBDA t2 :
            <<wrapping_add32(t1, t2), s[1], s[2], s[3],
              wrapping_add32(s[4], t1), s[5], s[6], s[7]>> \o <<>>))
\* the rounds lo..hi, one after the other
RECURSIVE rounds(_, _, _, _)
rounds(s, w, lo, hi) ==
    IF lo = hi THEN round(s, w, lo)
    ELSE Let(rounds(s, w, lo, (lo + hi) \div 2),
             LAMBDA l : <<l, rounds(l, w, (lo + hi) \div 2 + 1, hi)>>[2])

\* the compression of one 64-byte block into the hash value h
compress(h, block) ==
    Let(schedule([i \in 1..16 |->
                    <<block[4 * i - 3] * 256 + block[4 * i - 2],
                      block[4 * i - 1] * 256 + block[4 * i]>>] \o <<>>, 48),
        LAMBDA w :
        <<w, Let(rounds(h, w, 1, 64),
                 LAMBDA s :
                 [i \in 1..8 |-> wrapping_add32(h[i], s[i])] \o <<>>)>>[2])

\* the blocks lo..hi of the padded message, one after the other
RECURSIVE blocks(_, _, _, _)
blocks(h, padded, lo, hi) ==
    IF lo = hi THEN compress(h, SubSeq(padded, 64 * lo - 63, 64 * lo))
    ELSE Let(blocks(h, padded, lo, (lo + hi) \div 2),
             LAMBDA l : <<l, blocks(l, padded, (lo + hi) \div 2 + 1, hi)>>[2])

\* the message, the byte 0x80, zeros up to 56 modulo 64, and the length in
\* bits as a big-endian u64: byte by byte, 8 * Len(data) being
\* Len(data) \div 2^k shifted by three bits
pad(data) ==
    data \o <<128>> \o [i \in 1..((119 - (Len(data) % 64)) % 64) |-> 0]
      \o <<0, 0, 0,
           (Len(data) \div 536870912) % 256,
           (Len(data) \div 2097152) % 256,
           (Len(data) \div 8192) % 256,
           (Len(data) \div 32) % 256,
           (Len(data) % 32) * 8>>

\* SHA-256 (FIPS 180-4) of a byte string: the 32 bytes of the digest
Sha256Digest(data) ==
    Let(pad(data), LAMBDA padded :
    Let(blocks(SHA256_H0, padded, 1, Len(padded) \div 64), LAMBDA h :
        [i \in 1..32 |->
           Let(h[(i + 3) \div 4][IF (i - 1) % 4 < 2 THEN 1 ELSE 2],
               LAMBDA half :
               IF i % 2 = 1 THEN half \div 256 ELSE half % 256)] \o <<>>))

---------------------------------------------------------------------------
(* The byte strings of the requests below: address bodies, metadata       *)
(* digests, topics and payloads                                           *)

\* address bodies (20 bytes, and a 32-byte one) and metadata digests
KeyHashes == {Rep(20, 1), Rep(20, 2), Rep(32, 3)}
MetadataDigests == {Rep(32, 4), Sha256Digest(<<1>>)}

CommitmentPreimages == {h \o d : h \in KeyHashes, d \in MetadataDigests}

\* a string as its bytes: ".", " " and a tab
Dot == 46
Space == 32
Tab == 9

\* the encoding of a BroadcastMessage: its topic as a length-delimited
\* field, then the bytes of its other fields
EncodeBroadcast(topic, rest) == <<10, Len(topic)>> \o topic \o rest

\* topics: "a", "a.b", "b", "A", "a b", "a_", "a..b", "a.", one of ten
\* segments and one of eleven
TopicA == <<97>>
TopicAB == <<97, Dot, 98>>
TopicB == <<98>>
Topic10 == [i \in 1..19 |-> IF i % 2 = 1 THEN 97 ELSE Dot]
Topic11 == [i \in 1..21 |-> IF i % 2 = 1 THEN 97 ELSE Dot]
\* "a", a no-break space, "b"
TopicNbsp == <<97, 194, 160, 98>>
OddTopics ==
    {<<65>>, <<97, Space, 98>>, <<97, 95>>, <<97, Dot, Dot, 98>>,
     <<97, Dot>>, Topic11, TopicNbsp}

PayloadAB == EncodeBroadcast(TopicAB, <<16, 1>>)
PayloadB == EncodeBroadcast(TopicB, <<16, 1>>)
\* payloads of the other topics, and bytes that are no BroadcastMessage
OtherPayloads ==
    {EncodeBroadcast(t, <<16, 1>>) : t \in OddTopics \cup {TopicA, Topic10}}
      \cup {EncodeBroadcast(TopicAB, <<16, 2>>), <<7>>,
            EncodeBroadcast(<<97, 255>>, <<16, 1>>)}

GetTopics ==
    {<<>>, TopicA, TopicAB, TopicB, <<97, Space, 98>>, <<65>>, TopicNbsp}

\* the strings the requests make the keyserver hash: the commitment
\* preimages, the payloads, the topics and what precedes each of their
\* bytes
Sha256Inputs ==
    CommitmentPreimages \cup {<<1>>, PayloadAB, PayloadB} \cup OtherPayloads
      \cup UNION {{SubSeq(topic, 1, i) : i \in 0..Len(topic)} :
                    topic \in {TopicA, TopicAB, TopicB, Topic10}
                                \cup OddTopics \cup GetTopics}
\* their digests, computed once
Sha256Table == [data \in Sha256Inputs |-> Sha256Digest(data)]

\* keyserver/src/crypto.rs: the 32-byte SHA-256 digest of data
sha256(data) ==
    Let(Sha256Table, LAMBDA table :
        IF data \in DOMAIN table THEN table[data] ELSE Sha256Digest(data))

\* Transaction::transaction_id of a decoded transaction, and its reverse
transaction_id(tx) == [txid |-> tx]
transaction_id_rev(tx) == [txid_rev |-> tx]

\* a transaction output with a raw script; its value is a u64, held as its
\* eight big-endian bytes
RawOutput(value, script) == [value |-> value, script |-> script]

\* the u64 of a number below 256, and 2^63
U64(n) == Rep(7, 0) \o <<n>>
TwoTo63 == <<128>> \o Rep(7, 0)

\* i64::try_from(u64): None for a value of 2^63 and more; an i64 is held
\* as the eight big-endian bytes of its two's complement
try_into_i64(value) == IF value[1] >= 128 THEN None ELSE Some(value)

\* the sum of two i64 modulo 2^64, from byte i towards the first
RECURSIVE AddFrom(_, _, _, _)
AddFrom(a, b, i, carry) ==
    IF i = 0 THEN <<>>
    ELSE AddFrom(a, b, i - 1, (a[i] + b[i] + carry) \div 256)
           \o <<(a[i] + b[i] + carry) % 256>>
wrapping_add(a, b) == AddFrom(a, b, 8, 0)
is_negative(a) == a[1] >= 128
\* a + b leaves the range of i64
add_overflows(a, b) ==
    /\ is_negative(a) = is_negative(b)
    /\ is_negative(wrapping_add(a, b)) # is_negative(a)
\* -a of an i64 above i64::MIN
neg(a) == wrapping_add([i \in 1..8 |-> 255 - a[i]], U64(1))

---------------------------------------------------------------------------
(* keyserver/src/net/payments.rs *)

COMMITMENT_PREIMAGE_SIZE == 32 + 32
COMMITMENT_SIZE == 32
OP_RETURN == 106

\* token::schemes::chain_commitment
construct_commitment(pub_key_hash, address_metadata_hash) ==
    sha256(pub_key_hash \o address_metadata_hash)
chain_commitment_construct_token(tx_id, vout) ==
    Base64Url([tx_id |-> tx_id, vout |-> vout])

\* Address { body, ..Default::default() }.encode(): the cash address of a
\* body, for the body lengths the codec knows
address_encode(body) ==
    IF Len(body) \in {20, 24, 28, 32, 40, 48, 56, 64}
    THEN Some([cashaddr |-> body]) ELSE None

\* PaymentError::to_status; node_err is the NodeError of a Node error
PaymentError_to_status(err, node_err) ==
    CASE err = "Address" -> 400
      [] err = "IncorrectLengthPreimage" -> 400
      [] err = "MissingAcceptHeader" -> 406
      [] err = "MissingContentTypeHeader" -> 415
      [] err = "PaymentDecode" -> 400
      [] err = "MalformedTx" -> 400
      [] err = "MissingMerchantData" -> 400
      [] err = "MissingCommitment" -> 400
      [] err = "Node" -> IF node_err = "Rpc" THEN 400 ELSE 500

PaymentErr(err, n) ==
    [ok |-> FALSE, err |-> err, status |-> PaymentError_to_status(err, ""),
     node |-> n]

\* the vout of the first output of tx whose script is the commitment
\* output (None: it has none)
RECURSIVE FindVout(_, _, _)
FindVout(tx, expected_commitment, vout) ==
    IF vout >= Len(tx.output) THEN None
    ELSE Let(tx.output[vout + 1].script, LAMBDA raw_script :
         IF /\ Len(raw_script) = 2 + COMMITMENT_SIZE
            /\ raw_script[1] = OP_RETURN
            /\ raw_script[2] = COMMITMENT_SIZE
            /\ Slice(raw_script, 2, 34) = expected_commitment
         THEN Some(vout)
         ELSE FindVout(tx, expected_commitment, vout + 1))

\* the first transaction with a commitment output, and that output
RECURSIVE FindCommitment(_, _)
FindCommitment(txs, expected_commitment) ==
    IF txs = <<>> THEN None
    ELSE Let(FindVout(Head(txs), expected_commitment, 0), LAMBDA vout :
         IF vout # None
         THEN Some([tx_id |-> transaction_id_rev(Head(txs)),
                    vout |-> vout[1]])
         ELSE FindCommitment(Tail(txs), expected_commitment))

PaymentsMemo == "memo"

keyserver_process_payment(payment, n) ==
    IF \E i \in 1..Len(payment.transactions) :
           ~payment.transactions[i].decodes
    THEN PaymentErr("MalformedTx", n)
    ELSE IF payment.merchant_data = None
    THEN PaymentErr("MissingMerchantData", n)
    ELSE Let(payment.merchant_data[1], LAMBDA commitment_preimage :
    IF Len(commitment_preimage) # COMMITMENT_PREIMAGE_SIZE
    THEN PaymentErr("IncorrectLengthPreimage", n)
    ELSE Let(Slice(commitment_preimage, 0, 32), LAMBDA pub_key_hash :
    IF address_encode(pub_key_hash) = None THEN PaymentErr("Address", n)
    ELSE Let(FindCommitment(payment.transactions,
                 construct_commitment(pub_key_hash,
                     Slice(commitment_preimage, 32,
                           COMMITMENT_PREIMAGE_SIZE))), LAMBDA found :
    IF found = None THEN PaymentErr("MissingCommitment", n)
    ELSE Let(SendAll(n, payment.transactions), LAMBDA sent :
    IF ~sent.ok
    THEN [ok |-> FALSE, err |-> "Node",
          status |-> PaymentError_to_status("Node", sent.err),
          node |-> sent.node]
    ELSE [ok |-> TRUE, err |-> "", status |-> 200,
          location |-> <<"keys", address_encode(pub_key_hash)[1]>>,
          authorization |->
              PopHeader(chain_commitment_construct_token(
                            found[1].tx_id, found[1].vout)),
          body |-> [kind |-> "PaymentAck", payment |-> payment,
                    memo |-> Some(PaymentsMemo)],
          node |-> sent.node]))))

\* SETTINGS.limits.payment_size (the default of the settings in the
\* sources)
payment_size == 1024 * 3

\* main.rs: the payments route, path(PAYMENTS_PATH), post(), the headers,
\* content_length_limit(payment_size), preprocess_payment and then
\* process_payment.  The answer to a rejection of a filter is made by the
\* rejection handler of the keyserver, which is not among the sources: it
\* is held as the rejection, with status 0.
payments(req, n) ==
    LET rejected(kind) == [ok |-> FALSE, err |-> kind, status |-> 0, node |-> n]
    IN  IF req.path = <<>> \/ Head(req.path) # "payments"
        THEN rejected("NotFound")
        ELSE IF req.method # "POST" THEN rejected("MethodNotAllowed")
        ELSE IF content_length_limit(payment_size, req) # None
        THEN rejected(content_length_limit(payment_size, req)[1])
        ELSE IF preprocess_payment(req.headers, req.body) # "Ok"
        THEN PaymentErr(preprocess_payment(req.headers, req.body), n)
        ELSE keyserver_process_payment(req.body.value, n)

\* the 402 response and the invoice it carries
construct_payment_response(pub_key_hash, metadata_digest, current_time) ==
    Let(pub_key_hash \o metadata_digest, LAMBDA commitment_preimage :
        [status |-> 402,
         body |-> [kind |-> "PaymentRequest",
                   pki_type |-> Some("none"),
                   payment_details_version |-> Some(1),
                   payment_details |->
                      [network |-> Some("mainnet"),
                       time |-> current_time,
                       expires |-> None,
                       memo |-> None,
                       merchant_data |-> Some(commitment_preimage),
                       outputs |->
                          <<[amount |-> None,
                             script |-> <<OP_RETURN, COMMITMENT_SIZE>>
                                          \o sha256(commitment_preimage)]>>,
                       payment_url |-> Some(<<"payments">>)]]])

---------------------------------------------------------------------------
(* construct_payment_response and process_payment applied to invoices and *)
(* payments                                                                *)

\* output scripts: the commitment outputs, one with another commitment, a
\* bare OP_RETURN
CommitmentScripts ==
    {<<OP_RETURN, COMMITMENT_SIZE>> \o sha256(p) : p \in CommitmentPreimages}
OtherScripts == {<<OP_RETURN, COMMITMENT_SIZE>> \o Rep(32, 0), <<OP_RETURN>>}

KeyTxs ==
    {Tx(<<RawOutput(U64(0), s)>>) : s \in CommitmentScripts \cup OtherScripts}
      \cup {Tx(<<RawOutput(U64(0), <<OP_RETURN>>), RawOutput(U64(0), s)>>) :
               s \in CommitmentScripts}
      \cup {MalformedTx}

KeyPayments ==
    [merchant_data : {None} \cup {Some(p) : p \in CommitmentPreimages},
     transactions : SeqsUpTo(KeyTxs, 2)]

\* POST /payments with a payment, and requests the filters of the route
\* reject
KeyPayRequest(payment) ==
    Request("POST", <<"payments">>, Headers(None), NoQuery,
            [kind |-> "Payment", value |-> payment], FALSE)

KeyPayRequests ==
    {KeyPayRequest(payment) : payment \in KeyPayments}
      \cup
    {[KeyPayRequest(payment) EXCEPT !.content_length = Some(payment_size + 1)] :
        payment \in {q \in KeyPayments : Len(q.transactions) = 0}}
      \cup
    {Request("POST", <<"payments">>, [Headers(None) EXCEPT !.accept = FALSE],
             NoQuery, NoBody, FALSE),
     Request("POST", <<"payments">>,
             [Headers(None) EXCEPT !.content_type = FALSE],
             NoQuery, NoBody, FALSE),
     Request("POST", <<"payments">>, Headers(None), NoQuery, NoBody, FALSE),
     Request("GET", <<"payments">>, Headers(None), NoQuery, NoBody, FALSE)}

\* the node rejects a transaction whose only output is a bare OP_RETURN
KeyRejects == {Tx(<<RawOutput(U64(0), <<OP_RETURN>>)>>)}

KeyPayInit ==
    /\ db = <<>>
    /\ resp = [op |-> "none", args |-> <<>>, ret |-> <<>>]
    /\ nops = 0
    /\ node = [NodeInit EXCEPT !.rejects = KeyRejects]
    /\ msg_bus = <<>>
    /\ feed_bus = <<>>
    /\ wallet = WalletInit
    /\ ws = WsInit
    /\ tasks = <<>>

\* a PUT without token is answered with an invoice
Invoice(pub_key_hash, metadata_digest, current_time) ==
    /\ nops = 0
    /\ resp' = [op |-> "construct_payment_response",
                args |-> <<pub_key_hash, metadata_digest>>,
                ret |-> construct_payment_response(pub_key_hash,
                            metadata_digest, current_time)]
    /\ nops' = nops + 1
    /\ UNCHANGED <<db, node, msg_bus, feed_bus, wallet, ws, tasks>>

\* what a response of the payments route says
PayResponse(r) == [x \in DOMAIN r \ {"node"} |-> r[x]]

\* POST /payments: the route runs to the first send_tx of process_payment,
\* or to the answer when nothing is broadcast; a payment counts for two
\* operations
Pay(req) ==
    /\ \E r \in {payments(req, Answering(node))} :
       \E task \in {Task("payments", <<req>>, CallsOf(node, r.node), None)} :
          IF task.plan = <<>>
          THEN /\ resp' = [op |-> "payments", args |-> <<req>>,
                            ret |-> PayResponse(r), task |-> task]
               /\ tasks' = tasks
          ELSE /\ resp' = [op |-> "await", args |-> <<req>>, ret |-> <<>>]
               /\ tasks' = Append(tasks, task)
    /\ nops' = nops + 2
    /\ UNCHANGED <<db, node, msg_bus, feed_bus, wallet, ws>>

\* process_payment goes on after the last answer of the node, or with
\* the error of the send_tx that failed
PayResume(i) ==
    /\ i \in 1..Len(tasks)
    /\ tasks[i].op = "payments"
    /\ ~Pending(tasks[i])
    /\ resp' = [op |-> "payments", args |-> tasks[i].args,
                ret |-> PayResponse(payments(tasks[i].args[1],
                                             Seen(node, tasks[i]))),
                task |-> tasks[i]]
    /\ tasks' = RemoveAt(tasks, i)
    /\ UNCHANGED <<db, nops, node, msg_bus, feed_bus, wallet, ws>>

KeyPayNext ==
    \/ \E h \in KeyHashes, d \in MetadataDigests, t \in Times :
          Invoice(h, d, t)
    \/ /\ nops + 2 <= MaxOps
       /\ \E req \in KeyPayRequests : Pay(req)
    \/ NodeAnswer(1)
    \/ PayResume(1)
    \/ NodeFlip

SpecKeyPay == KeyPayInit /\ [][KeyPayNext]_vars

\* the payment echoes the invoice's merchant_data and holds a transaction
\* with an output whose script is the invoice's output script
PaysInvoice(payment, invoice) ==
    /\ payment.merchant_data = invoice.payment_details.merchant_data
    /\ \E i \in 1..Len(payment.transactions) :
          /\ payment.transactions[i].decodes
          /\ \E v \in 1..Len(payment.transactions[i].output) :
                payment.transactions[i].output[v].script
                   = invoice.payment_details.outputs[1].script

\* the first output of the payment with the script, as (tx_id, vout)
FirstOutput(payment, script) ==
    Let(CHOOSE i \in 1..Len(payment.transactions) :
          /\ \E v \in 1..Len(payment.transactions[i].output) :
                payment.transactions[i].output[v].script = script
          /\ \A j \in 1..(i - 1) :
                \A v \in 1..Len(payment.transactions[j].output) :
                   payment.transactions[j].output[v].script # script,
        LAMBDA i :
          [tx_id |-> transaction_id_rev(payment.transactions[i]),
           vout |-> (CHOOSE v \in 1..Len(payment.transactions[i].output) :
                       /\ payment.transactions[i].output[v].script = script
                       /\ \A u \in 1..(v - 1) :
                            payment.transactions[i].output[u].script
                               # script) - 1])

\* C15: for a 20-byte address body and a 32-byte metadata digest, a
\* payment that echoes the merchant_data of the invoice built by
\* construct_payment_response and holds a well-formed transaction with the
\* invoice's commitment output is accepted by process_payment (the node
\* taking its transactions), with Authorization: POP base64(tx_id || vout)
\* for that output and Location: /keys/<addr> for the same address.
C15_InvoiceRoundTrip ==
    [][\A h \in KeyHashes, d \in MetadataDigests :
        LET invoice == construct_payment_response(h, d, 1).body
            req == resp'.args[1]
        IN
        (/\ Len(h) = 20
         /\ Len(d) = 32
         /\ resp'.op = "payments"
         /\ req.method = "POST"
         /\ content_length_limit(payment_size, req) = None
         /\ preprocess_payment(req.headers, req.body) = "Ok"
         /\ PaysInvoice(req.body.value, invoice)
         /\ \A i \in 1..Len(req.body.value.transactions) :
               req.body.value.transactions[i].decodes
         /\ resp'.task.err = "")
        => /\ resp'.ret.ok
           /\ resp'.ret.location = <<"keys", [cashaddr |-> h]>>
           /\ resp'.ret.authorization
                = Let(FirstOutput(req.body.value,
                          invoice.payment_details.outputs[1].script),
                      LAMBDA o :
                        PopHeader(Base64Url([tx_id |-> o.tx_id,
                                             vout |-> o.vout])))]_vars

---------------------------------------------------------------------------
(* keyserver/src/pubsub/db.rs: the two column families of the pub/sub     *)
(* store, [messages |-> index rows, payloads |-> wrappers by digest]      *)

\* core::str::from_utf8(bytes).is_ok()
RECURSIVE is_utf8(_)
is_utf8(bytes) ==
    LET cont(i) == i <= Len(bytes) /\ bytes[i] \in 128..191
        rest(n) == is_utf8(SubSeq(bytes, n + 1, Len(bytes)))
    IN  IF bytes = <<>> THEN TRUE
        ELSE IF bytes[1] < 128 THEN rest(1)
        ELSE IF bytes[1] \in 194..223 THEN cont(2) /\ rest(2)
        ELSE IF bytes[1] \in 224..239
        THEN /\ cont(2) /\ cont(3)
             /\ bytes[1] = 224 => bytes[2] >= 160
             /\ bytes[1] = 237 => bytes[2] <= 159
             /\ rest(3)
        ELSE IF bytes[1] \in 240..244
        THEN /\ cont(2) /\ cont(3) /\ cont(4)
             /\ bytes[1] = 240 => bytes[2] >= 144
             /\ bytes[1] = 244 => bytes[2] <= 143
             /\ rest(4)
        ELSE FALSE

\* str::chars: the code points of the bytes of a string
RECURSIVE chars(_)
chars(bytes) ==
    LET rest(n) == chars(SubSeq(bytes, n + 1, Len(bytes)))
    IN  IF bytes = <<>> THEN <<>>
        ELSE IF bytes[1] < 128 THEN <<bytes[1]>> \o rest(1)
        ELSE IF bytes[1] < 224
        THEN <<(bytes[1] - 192) * 64 + (bytes[2] - 128)>> \o rest(2)
        ELSE IF bytes[1] < 240
        THEN <<(bytes[1] - 224) * 4096 + (bytes[2] - 128) * 64
                 + (bytes[3] - 128)>> \o rest(3)
        ELSE <<(bytes[1] - 240) * 262144 + (bytes[2] - 128) * 4096
                 + (bytes[3] - 128) * 64 + (bytes[4] - 128)>> \o rest(4)

\* char::is_whitespace: the code points with the property White_Space
is_whitespace(c) ==
    c \in (9..13) \cup {32, 133, 160, 5760} \cup (8192..8202)
            \cup {8232, 8233, 8239, 8287, 12288}

\* topic.split("."): the segments between the dots
RECURSIVE Split(_)
Split(topic) ==
    IF \A i \in 1..Len(topic) : topic[i] # Dot THEN <<topic>>
    ELSE Let(CHOOSE i \in 1..Len(topic) :
                /\ topic[i] = Dot
                /\ \A j \in 1..(i - 1) : topic[j] # Dot,
             LAMBDA i : <<SubSeq(topic, 1, i - 1)>>
                           \o Split(SubSeq(topic, i + 1, Len(topic))))

\* split_topic[0..idx].join(".")
RECURSIVE Join(_, _)
Join(split_topic, idx) ==
    IF idx = 0 THEN <<>>
    ELSE IF idx = 1 THEN split_topic[1]
    ELSE Join(split_topic, idx - 1) \o <<Dot>> \o split_topic[idx]

\* u64::to_be_bytes / i64::to_be_bytes of a number in -256..255
to_be_bytes(x) ==
    IF x >= 0 THEN Rep(7, 0) \o <<x>> ELSE Rep(7, 255) \o <<256 + x>>

\* the stored bytes of a wrapper, and the wrapper they decode to
EncodeWrapper(message) == [kind |-> "AuthWrapper", value |-> message]
DecodeWrapper(wrapper_bytes) == wrapper_bytes.value

PubSubDbInit == [messages |-> <<>>, payloads |-> <<>>]

\* the index rows of the prefixes idx..Len(split_topic) of a topic
RECURSIVE PutIndex(_, _, _, _, _)
PutIndex(cf, split_topic, timestamp, payload_digest, idx) ==
    IF idx > Len(split_topic) THEN cf
    ELSE PutIndex(DbPut(cf,
                        sha256(Join(split_topic, idx))
                           \o to_be_bytes(timestamp) \o payload_digest,
                        payload_digest),
                  split_topic, timestamp, payload_digest, idx + 1)

PubSubDatabase_put_message(d, timestamp, topic, message) ==
    Let(Split(topic), LAMBDA split_topic :
        IF Len(split_topic) > 10 THEN [err |-> "TopicTooLong", db |-> d]
        ELSE IF \E i \in 1..Len(split_topic) : Len(split_topic[i]) = 0
        THEN [err |-> "TopicInvalidSegments", db |-> d]
        ELSE [err |-> "",
              db |-> [payloads |->
                         DbPut(d.payloads, message.payload_digest,
                               EncodeWrapper(message)),
                      messages |->
                         PutIndex(d.messages, split_topic, timestamp,
                                  message.payload_digest, 0)]])

PubSubDatabase_update_message(d, message) ==
    [d EXCEPT !.payloads =
        DbPut(@, message.payload_digest, EncodeWrapper(message))]

PubSubDatabase_get_message(d, payload_digest) ==
    Let(DbGet(d.payloads, payload_digest), LAMBDA value :
        IF value # None
        THEN [err |-> "", message |-> DecodeWrapper(value[1])]
        ELSE [err |-> "MissingValue", message |-> <<>>])

get_messages_to(d, topic, from, to) ==
    IF \E i \in 1..Len(chars(topic)) : is_whitespace(chars(topic)[i])
    THEN [err |-> "TopicInvalidCharacters", messages |-> <<>>]
    ELSE Let(sha256(topic), LAMBDA topic_digest :
         Let(TakeWhile(LAMBDA key :
                          ~BytesLess(topic_digest \o to_be_bytes(to), key),
                       IteratorFrom(d.messages,
                                    topic_digest \o to_be_bytes(from))),
             LAMBDA keys :
                [err |-> "",
                 messages |->
                    [i \in 1..Len(keys) |->
                       PubSubDatabase_get_message(
                           d, d.messages[keys[i]]).message]]))

---------------------------------------------------------------------------
(* keyserver/src/pubsub/handlers.rs *)

POND_PREFIX == <<80, 79, 78, 68>>

COMMITMENT_LENGTH == 1 + 1 + 4 + 1 + 1 + 32

\* BroadcastMessage::decode; no bytes decode to the default message, whose
\* topic is the empty string; a topic is a string, its bytes are UTF-8
BroadcastMessage_decode(payload) ==
    IF payload = <<>> THEN [err |-> "", topic |-> <<>>]
    ELSE IF /\ Len(payload) >= 2 /\ payload[1] = 10
            /\ Len(payload) >= 2 + payload[2]
            /\ is_utf8(SubSeq(payload, 3, 2 + payload[2]))
    THEN [err |-> "", topic |-> SubSeq(payload, 3, 2 + payload[2])]
    ELSE [err |-> "ProtoBufDecodeError", topic |-> <<>>]

\* a burn output of a wrapper
BurnOutputs(tx, index) == [tx |-> tx, index |-> index]

is_op_return(script) == script # <<>> /\ script[1] = OP_RETURN

\* mutant: the commitment of the burn output is not compared
BurnCheck_AnyCommitment(transaction, payload_digest) ==
    IF ~transaction.tx.decodes THEN "panic"
    ELSE IF transaction.index >= Len(transaction.tx.output) THEN "panic"
    ELSE Let(transaction.tx.output[transaction.index + 1].script,
             LAMBDA raw_script :
         IF ~is_op_return(raw_script) THEN "InvalidOutputFormat"
         ELSE IF Len(raw_script) # COMMITMENT_LENGTH
         THEN "InvalidOutputFormat"
         ELSE IF \/ raw_script[2] # 4
                 \/ Slice(raw_script, 2, 6) # POND_PREFIX
                 \/ ~(raw_script[7] = 81 \/ raw_script[7] = 0)
                 \/ raw_script[8] # 32
         THEN "InvalidOutputFormat"
         ELSE "")

\* the check of one burn output: "" when it is valid, "panic" when the
\* transaction does not decode or has no such output
BurnCheck(transaction, payload_digest) ==
    IF ~transaction.tx.decodes THEN "panic"
    ELSE IF transaction.index >= Len(transaction.tx.output) THEN "panic"
    ELSE Let(transaction.tx.output[transaction.index + 1].script,
             LAMBDA raw_script :
         IF ~is_op_return(raw_script) THEN "InvalidOutputFormat"
         ELSE IF Len(raw_script) # COMMITMENT_LENGTH
         THEN "InvalidOutputFormat"
         ELSE IF \/ raw_script[2] # 4
                 \/ Slice(raw_script, 2, 6) # POND_PREFIX
                 \/ ~(raw_script[7] = 81 \/ raw_script[7] = 0)
                 \/ raw_script[8] # 32
         THEN "InvalidOutputFormat"
         ELSE IF payload_digest # Slice(raw_script, 8, COMMITMENT_LENGTH)
         THEN "InvalidOutputCommitment"
         ELSE "")

\* [txid, idx.to_be_bytes()].concat()
tx_map_key(transaction) ==
    <<transaction_id(transaction.tx), transaction.index>>

\* BurnOutputsWithAmounts of a burn output that passed the check: the
\* output with its value as an i64, negative for a downvote; err when the
\* value is no i64
BurnOutputsWithAmounts(transaction) ==
    Let(transaction.tx.output[transaction.index + 1], LAMBDA output :
        IF try_into_i64(output.value) = None
        THEN [err |-> "TransactionOutputInvalid", burn |-> transaction,
              amount |-> U64(0)]
        ELSE [err |-> "", burn |-> transaction,
              amount |-> IF output.script[7] = 81
                         THEN try_into_i64(output.value)[1]
                         ELSE neg(try_into_i64(output.value)[1])])

\* mutant: an output declared again adds its amount to the entry
Insert_Accumulate(map, key, value) ==
    [k \in DOMAIN map \cup {key} |->
        IF k # key THEN map[k]
        ELSE IF key \in DOMAIN map
        THEN [value EXCEPT !.amount = wrapping_add(@, map[key].amount)]
        ELSE value]

\* HashMap::insert
Insert(map, key, value) ==
    [k \in DOMAIN map \cup {key} |-> IF k = key THEN value ELSE map[k]]

\* the loop over message.transactions from the i-th on: the map of the
\* burn outputs, or the error the loop ends with
RECURSIVE CheckBurns(_, _, _, _)
CheckBurns(burns, payload_digest, i, transactions) ==
    IF i > Len(burns) THEN [err |-> "", transactions |-> transactions]
    ELSE Let(BurnCheck(burns[i], payload_digest), LAMBDA err :
         IF err # "" THEN [err |-> err, transactions |-> <<>>]
         ELSE Let(BurnOutputsWithAmounts(burns[i]), LAMBDA with_amount :
         IF with_amount.err # ""
         THEN [err |-> with_amount.err, transactions |-> <<>>]
         ELSE CheckBurns(burns, payload_digest, i + 1,
                         Insert(transactions, tx_map_key(burns[i]),
                                [burn |-> with_amount.burn,
                                 amount |-> with_amount.amount]))))

\* the loop over the transactions of the stored wrapper: a transaction
\* that does not decode and a value that is no i64 end it with an error,
\* an index without output with a panic
RECURSIVE InsertStored(_, _, _)
InsertStored(burns, i, transactions) ==
    IF i > Len(burns) THEN [err |-> "", transactions |-> transactions]
    ELSE IF ~burns[i].tx.decodes
    THEN [err |-> "TransactionInvalidError", transactions |-> <<>>]
    ELSE IF burns[i].index >= Len(burns[i].tx.output)
              \/ Len(burns[i].tx.output[burns[i].index + 1].script) < 7
    THEN [err |-> "panic", transactions |-> <<>>]
    ELSE Let(BurnOutputsWithAmounts(burns[i]), LAMBDA with_amount :
         IF with_amount.err # ""
         THEN [err |-> with_amount.err, transactions |-> <<>>]
         ELSE InsertStored(burns, i + 1,
                           Insert(transactions, tx_map_key(burns[i]),
                                  [burn |-> with_amount.burn,
                                   amount |-> with_amount.amount])))

\* the keys of a map, one after the other
RECURSIVE KeysOf(_)
KeysOf(map) ==
    IF DOMAIN map = {} THEN <<>>
    ELSE Let(CHOOSE k \in DOMAIN map : TRUE, LAMBDA k :
             <<k>> \o KeysOf([j \in DOMAIN map \ {k} |-> map[j]]))

\* transactions.values(): the values in the iteration order of the
\* HashMap, which its hasher decides.  iteration is that order, a
\* permutation of 1..N applied to the keys of the map (and to the first N
\* when the map has more).
Values(map, iteration) ==
    Let(KeysOf(map), LAMBDA keys :
    Let(SelectSeq(iteration, LAMBDA p : p <= Len(keys))
          \o [i \in 1..(Len(keys) - Len(iteration)) |-> Len(iteration) + i],
        LAMBDA order :
        [i \in 1..Len(order) |-> map[keys[order[i]]]]))

\* .map(|burn_output| burn_output.1).sum::<i64>(): the sum modulo 2^64,
\* and whether an addition left the range of i64
RECURSIVE SumAmounts(_, _)
SumAmounts(values, acc) ==
    IF values = <<>> THEN acc
    ELSE SumAmounts(Tail(values),
                    [sum |-> wrapping_add(acc.sum, Head(values).amount),
                     overflow |-> acc.overflow
                        \/ add_overflows(acc.sum, Head(values).amount)])
sum_i64(values) == SumAmounts(values, [sum |-> U64(0), overflow |-> FALSE])

PubSubReject(err, d, n) == [err |-> err, status |-> 0, db |-> d, node |-> n]

\* put_message of handlers.rs.  overflow_checks is the build: with it an
\* addition that leaves the range of i64 panics, without it the sum wraps.
\* iteration is the iteration order of the map of the burn outputs.
pubsub_put_message(message_in, d, n, timestamp, overflow_checks, iteration) ==
    IF Len(message_in.transactions) = 0
    THEN PubSubReject("InvalidOutputFormat", d, n)
    ELSE Let(IF Len(message_in.payload_digest) = 0
             THEN [message_in EXCEPT
                      !.payload_digest = sha256(message_in.payload)]
             ELSE message_in, LAMBDA message :
    Let(BroadcastMessage_decode(message.payload), LAMBDA payload :
    IF payload.err # "" THEN PubSubReject("ProtoBufDecodeError", d, n)
    ELSE IF Len(Split(payload.topic)) > 10
    THEN PubSubReject("InvalidTopicFormat", d, n)
    ELSE IF \E i \in 1..Len(Split(payload.topic)) :
               Len(Split(payload.topic)[i]) = 0
    THEN PubSubReject("InvalidTopicFormat", d, n)
    ELSE Let(CheckBurns(message.transactions, message.payload_digest, 1,
                        <<>>), LAMBDA checked :
    IF checked.err # "" THEN PubSubReject(checked.err, d, n)
    ELSE Let(SendAll(n, [i \in 1..Len(message.transactions) |->
                            message.transactions[i].tx]), LAMBDA sent :
    IF ~sent.ok THEN PubSubReject("BitcoinRPCError", d, sent.node)
    ELSE Let(PubSubDatabase_get_message(d, message.payload_digest),
             LAMBDA existing_value :
    IF existing_value.err = "" /\ Len(message.payload) = 0
    THEN Let(InsertStored(existing_value.message.transactions, 1,
                          checked.transactions), LAMBDA merged :
         IF merged.err # "" THEN PubSubReject(merged.err, d, sent.node)
         ELSE Let(Values(merged.transactions, iteration), LAMBDA values :
         IF sum_i64(values).overflow /\ overflow_checks
         THEN PubSubReject("panic", d, sent.node)
         ELSE [err |-> "", status |-> 200,
               db |-> PubSubDatabase_update_message(d,
                         [existing_value.message EXCEPT
                             !.transactions =
                                 [i \in 1..Len(values) |-> values[i].burn],
                             !.burn_amount = sum_i64(values).sum]),
               node |-> sent.node]))
    ELSE Let(sum_i64(Values(checked.transactions, iteration)),
             LAMBDA burn_amount :
         IF burn_amount.overflow /\ overflow_checks
         THEN PubSubReject("panic", d, sent.node)
         ELSE Let(PubSubDatabase_put_message(d, timestamp, payload.topic,
                      [message EXCEPT !.burn_amount = burn_amount.sum]),
                  LAMBDA put :
         IF put.err # "" THEN PubSubReject("DatabaseError", d, sent.node)
         ELSE [err |-> "", status |-> 200, db |-> put.db,
               node |-> sent.node])))))))

\* main.rs: the route messages_put, content_length_limit(100_000) and then
\* the handler on AuthWrapper::decode(body).unwrap(), which panics when
\* the body is no AuthWrapper.  ran tells whether put_message was called.
messages_put(req, d, n, timestamp, overflow_checks, iteration) ==
    IF content_length_limit(100000, req) # None
    THEN [ran |-> FALSE]
           @@ PubSubReject(content_length_limit(100000, req)[1], d, n)
    ELSE IF req.body.kind # "AuthWrapper"
    THEN [ran |-> FALSE] @@ PubSubReject("panic", d, n)
    ELSE [ran |-> TRUE]
           @@ pubsub_put_message(req.body.value, d, n, timestamp,
                                 overflow_checks, iteration)

pubsub_get_messages(d, topic, from, to) ==
    Let(get_messages_to(d, topic, from, to), LAMBDA messages :
        IF messages.err # ""
        THEN [err |-> "DatabaseError", status |-> 0, body |-> <<>>]
        ELSE [err |-> "", status |-> 200,
              body |-> [kind |-> "AuthWrapperSet",
                        items |-> messages.messages]])

---------------------------------------------------------------------------
(* The pub/sub store under PUT /messages and GET /messages                *)

MaxPubOps == 2
\* the burn outputs a map holds at most, and the orders it iterates in
MaxEntries == 3
Iterations ==
    {p \in [1..MaxEntries -> 1..MaxEntries] :
        \A i, j \in 1..MaxEntries : i # j => p[i] # p[j]}
\* PUT /messages requests in flight at once
MaxPubTasks == 1

BurnScript(vote, commitment) ==
    <<OP_RETURN, 4>> \o POND_PREFIX \o <<vote, 32>> \o commitment

\* a transaction with an output that is no burn and one that is an upvote
TwoOutputs(commitment) ==
    Tx(<<RawOutput(U64(1), <<118>>),
         RawOutput(U64(3), BurnScript(81, commitment))>>)

\* valid burn outputs for a commitment: an upvote of 5, a downvote of 2,
\* an upvote of 3 at index 1
ValidBurns(c) ==
    {BurnOutputs(Tx(<<RawOutput(U64(5), BurnScript(81, c))>>), 0),
     BurnOutputs(Tx(<<RawOutput(U64(2), BurnScript(0, c))>>), 0),
     BurnOutputs(TwoOutputs(c), 1)}

\* invalid ones: not an OP_RETURN, no such output, a value of 2^63, a wrong
\* prefix length, prefix, vote byte, push length, script length, first
\* byte, commitment, and a transaction that does not decode
InvalidBurns(c) ==
    {BurnOutputs(TwoOutputs(c), 0),
     BurnOutputs(TwoOutputs(c), 2),
     BurnOutputs(MalformedTx, 0)}
      \cup {BurnOutputs(Tx(<<RawOutput(TwoTo63, BurnScript(81, c))>>), 0)}
      \cup {BurnOutputs(Tx(<<RawOutput(U64(5), s)>>), 0) :
               s \in {<<OP_RETURN, 5>> \o POND_PREFIX \o <<81, 32>> \o c,
                      <<OP_RETURN, 4, 80, 79, 78, 69, 81, 32>> \o c,
                      BurnScript(82, c),
                      <<OP_RETURN, 4>> \o POND_PREFIX \o <<81, 31>> \o c,
                      BurnScript(81, SubSeq(c, 1, 31)),
                      <<107, 4>> \o POND_PREFIX \o <<81, 32>> \o c,
                      BurnScript(81, Rep(32, 9))}}

BurnLists(c) ==
    {<<>>}
      \cup {<<b>> : b \in ValidBurns(c) \cup InvalidBurns(c)}
      \cup {<<b1, b2>> : b1 \in ValidBurns(c), b2 \in ValidBurns(c)}
      \cup {<<b1, b2>> : b1 \in ValidBurns(c), b2 \in InvalidBurns(c)}

\* the wrapper of a request
Wrapper(payload, payload_digest, transactions) ==
    [payload |-> payload, payload_digest |-> payload_digest,
     transactions |-> transactions, burn_amount |-> U64(0)]

\* requests: the two messages with every list of burn outputs; the same
\* with a digest declared; no payload, with or without a digest; the other
\* payloads
PubSubWrappers ==
    UNION {{Wrapper(p, <<>>, l) : l \in BurnLists(sha256(p))} :
              p \in {PayloadAB, PayloadB}}
      \cup UNION {{Wrapper(PayloadAB, dg, <<b>>) : b \in ValidBurns(dg)} :
                     dg \in {sha256(PayloadAB), sha256(PayloadB)}}
      \cup UNION {{Wrapper(<<>>, dg, l) :
                       l \in {<<>>} \cup {<<b>> : b \in ValidBurns(dg)}} :
                     dg \in {sha256(PayloadAB), sha256(PayloadB)}}
      \cup {Wrapper(<<>>, <<>>, <<b>>) : b \in ValidBurns(sha256(<<>>))}
      \cup UNION {{Wrapper(p, <<>>, <<b>>) : b \in ValidBurns(sha256(p))} :
                     p \in OtherPayloads}

\* a body that is no AuthWrapper: bytes that end within a field; they hold
\* no wrapper, and no field of value is read
NotAWrapper == [kind |-> "bytes", value |-> Wrapper(<<>>, <<>>, <<>>)]

PubRequest(body, content_length) ==
    [body |-> body, content_length |-> content_length]

\* the PUT /messages requests: every wrapper, a body that is no wrapper,
\* a request without Content-Length and one above the limit
PubRequests ==
    {PubRequest(EncodeWrapper(message), Some(BodySize)) :
        message \in PubSubWrappers}
      \cup {PubRequest(NotAWrapper, Some(BodySize)),
            PubRequest(EncodeWrapper(Wrapper(PayloadB, <<>>, <<>>)), None),
            PubRequest(EncodeWrapper(Wrapper(PayloadB, <<>>, <<>>)),
                       Some(100001))}

\* the node rejects the transactions with two outputs
PubRejects == {TwoOutputs(sha256(p)) : p \in {PayloadAB, PayloadB}}

PubSubInit ==
    /\ db = PubSubDbInit
    /\ resp = [op |-> "none", args |-> <<>>, ret |-> <<>>]
    /\ nops = 0
    /\ node = [NodeInit EXCEPT !.rejects = PubRejects]
    /\ msg_bus = <<>>
    /\ feed_bus = <<>>
    /\ wallet = WalletInit
    /\ ws = WsInit
    /\ tasks = <<>>

\* PUT /messages: the route and put_message up to the first send_tx, or to
\* the end when the request is rejected before; the store and the clock
\* are read and the burn outputs summed after the broadcasts
PubPut(req) ==
    /\ \E r \in {messages_put(req, db, Answering(node), 0, FALSE, <<>>)} :
       \E task \in {Task("put_message", <<req>>, CallsOf(node, r.node),
                          <<>>)} :
          IF task.plan = <<>>
          THEN /\ resp' = IF r.ran
                          THEN [op |-> "put_message",
                                args |-> <<req.body.value>>,
                                ret |-> [err |-> r.err, status |-> r.status],
                                task |-> task]
                          ELSE [op |-> "messages_put", args |-> <<req>>,
                                ret |-> [err |-> r.err, status |-> r.status]]
               /\ db' = r.db
               /\ tasks' = tasks
          ELSE /\ Len(tasks) < MaxPubTasks
               /\ resp' = [op |-> "await", args |-> task.args, ret |-> <<>>]
               /\ tasks' = Append(tasks, task)
               /\ db' = db
    /\ nops' = nops + 1
    /\ UNCHANGED <<node, msg_bus, feed_bus, wallet, ws>>

\* put_message goes on after its last send_tx, or returns the
\* BitcoinRPCError of the send_tx that failed
PubPutResume(i, timestamp, overflow_checks, iteration) ==
    /\ i \in 1..Len(tasks)
    /\ tasks[i].op = "put_message"
    /\ ~Pending(tasks[i])
    /\ \E r \in {messages_put(tasks[i].args[1], db, Seen(node, tasks[i]),
                               timestamp, overflow_checks, iteration)} :
          /\ resp' = [op |-> "put_message",
                      args |-> <<tasks[i].args[1].body.value, timestamp>>,
                      ret |-> [err |-> r.err, status |-> r.status],
                      task |-> tasks[i]]
          /\ db' = r.db
    /\ tasks' = RemoveAt(tasks, i)
    /\ UNCHANGED <<nops, node, msg_bus, feed_bus, wallet, ws>>

\* GET /messages?topic&from&to
PubGet(topic, from, to) ==
    /\ resp' = [op |-> "get_messages", args |-> <<topic, from, to>>,
                ret |-> pubsub_get_messages(db, topic, from, to)]
    /\ nops' = nops + 1
    /\ UNCHANGED <<db, node, msg_bus, feed_bus, wallet, ws, tasks>>

PubSubNext ==
    \/ /\ nops < MaxPubOps
       /\ \E req \in PubRequests : PubPut(req)
    \/ \E i \in 1..MaxPubTasks : NodeAnswer(i)
    \/ \E i \in 1..MaxPubTasks, timestamp \in Times,
          overflow_checks \in BOOLEAN, iteration \in Iterations :
          PubPutResume(i, timestamp, overflow_checks, iteration)
    \/ NodeFlip
    \/ /\ nops < MaxPubOps
       /\ \E topic \in GetTopics, from \in {0 - 1, 0, 1, 2}, to \in Times :
             PubGet(topic, from, to)

SpecPubSub == PubSubInit /\ [][PubSubNext]_vars

\* the topic a wrapper is published under, its digest, and the wrapper the
\* store holds for it
TopicOf(message) == BroadcastMessage_decode(message.payload).topic
DigestOf(message) ==
    IF Len(message.payload_digest) = 0 THEN sha256(message.payload)
    ELSE message.payload_digest
StoredMessage(d, message) == DecodeWrapper(d.payloads[DigestOf(message)])

\* a topic of at most ten non-empty segments of [a-z0-9-]
ValidTopic(topic) ==
    /\ \A i \in 1..Len(topic) :
          topic[i] \in (97..122) \cup (48..57) \cup {45, Dot}
    /\ Len(Split(topic)) <= 10
    /\ \A i \in 1..Len(Split(topic)) : Len(Split(topic)[i]) > 0

\* prefix is a (possibly empty) dot-separated prefix of topic
IsDotPrefix(prefix, topic) ==
    \E idx \in 0..Len(Split(topic)) : prefix = Join(Split(topic), idx)

\* the messages a GET returned
Returned(ret) ==
    IF ret.err # "" THEN {}
    ELSE {ret.body.items[i] : i \in 1..Len(ret.body.items)}

\* a message was published, and the next request reads a range of a topic
PublishThenGet ==
    /\ resp.op = "put_message"
    /\ resp.ret.err = ""
    /\ ValidTopic(TopicOf(resp.args[1]))
    /\ resp'.op = "get_messages"

\* C16: a message m published under a topic t of non-empty segments at
\* time T is returned by get(prefix, from, to) with 0 <= from <= T <= to
\* for every prefix that is a (possibly empty) dot-separated prefix of t,
\* and is not returned for any topic that is not such a prefix.
C16_GetByTopicPrefix ==
    [][(/\ PublishThenGet
        /\ 0 <= resp'.args[2]
        /\ resp'.args[2] <= resp.args[2]
        /\ resp.args[2] <= resp'.args[3])
       => (IsDotPrefix(resp'.args[1], TopicOf(resp.args[1]))
             <=> StoredMessage(db, resp.args[1]) \in Returned(resp'.ret))
      ]_vars


\* C17: publishing under a topic that contains whitespace, an uppercase
\* letter or any character outside [a-z0-9.-], that has more than ten
\* dot-separated segments or that has an empty segment returns an error
\* and writes neither the payloads nor the messages column family.
C17_InvalidTopicRejected ==
    [][(/\ resp'.op = "put_message"
        /\ BroadcastMessage_decode(resp'.args[1].payload).err = ""
        /\ ~ValidTopic(TopicOf(resp'.args[1])))
       => /\ resp'.ret.err # ""
          /\ db' = db]_vars

\* the burn output is an output of its transaction with the script
\* OP_RETURN PUSH4 "POND" (OP_0 | OP_1) PUSH32 <commitment>
IsBurnOf(transaction, commitment) ==
    /\ transaction.tx.decodes
    /\ transaction.index < Len(transaction.tx.output)
    /\ Len(commitment) = 32
    /\ \E vote \in {0, 81} :
          transaction.tx.output[transaction.index + 1].script
             = <<106, 4, 80, 79, 78, 68, vote, 32>> \o commitment

\* the wrapper declares at least one burn output, and every one it
\* declares is a burn output committing to its payload_digest
BurnsValid(message) ==
    /\ Len(message.transactions) >= 1
    /\ \A i \in 1..Len(message.transactions) :
          IsBurnOf(message.transactions[i], DigestOf(message))

\* C18: a PUT /messages is accepted only if the wrapper declares at least
\* one burn output and every declared burn output's script is exactly
\* OP_RETURN PUSH4 "POND" (OP_0 | OP_1) PUSH32 <payload_digest>; otherwise
\* the request is rejected, no transaction is broadcast and nothing is
\* stored.
C18_BurnOutputsGatePublish ==
    [][resp'.op = "put_message"
       => /\ resp'.ret.err = "" => BurnsValid(resp'.args[1])
          /\ ~BurnsValid(resp'.args[1])
                => /\ resp'.ret.err # ""
                   /\ resp'.task.plan = <<>>
                   /\ db' = db]_vars

\* a message is stored, and a request whose first burn output is valid
\* and whose second commits to another digest was rejected
C18_Witness ==
    /\ resp.op = "put_message"
    /\ resp.ret.err = "InvalidOutputCommitment"
    /\ Len(resp.args[1].transactions) = 2
    /\ IsBurnOf(resp.args[1].transactions[1], DigestOf(resp.args[1]))
    /\ DOMAIN db.payloads # {}
    /\ Len(node.sent) = 1

\* +value of an upvote output, -value of a downvote output
SignedValue(pair) ==
    Let(pair[1].output[pair[2] + 1], LAMBDA output :
        IF output.script[7] = 81 THEN output.value[8]
        ELSE 0 - output.value[8])

RECURSIVE SignedSum(_)
SignedSum(pairs) ==
    IF pairs = {} THEN 0
    ELSE Let(CHOOSE pair \in pairs : TRUE, LAMBDA pair :
             SignedValue(pair) + SignedSum(pairs \ {pair}))

\* the distinct (transaction, index) pairs among burn outputs
BurnPairs(transactions) ==
    {<<transactions[i].tx, transactions[i].index>> :
        i \in 1..Len(transactions)}

\* C19: the burn_amount stored with a published message is the signed sum,
\* over the distinct (txid, index) pairs among its burn outputs, of +value
\* for an upvote output and -value for a downvote output.
C19_BurnAmountSignedSum ==
    [][(resp'.op = "put_message" /\ resp'.ret.err = "")
       => StoredMessage(db', resp'.args[1]).burn_amount
            = to_be_bytes(SignedSum(BurnPairs(
                  StoredMessage(db', resp'.args[1]).transactions)))]_vars

\* a message with the same upvote of 5 declared twice is stored with
\* burn_amount 5, one with an upvote of 5 and a downvote of 2 with 3
C19_Witness ==
    /\ resp.op = "put_message"
    /\ resp.ret.err = ""
    /\ Len(resp.args[1].transactions) = 2
    /\ resp.args[1].transactions[1] = resp.args[1].transactions[2]
    /\ StoredMessage(db, resp.args[1]).burn_amount = U64(5)
    /\ \E dg \in DOMAIN db.payloads :
          /\ DecodeWrapper(db.payloads[dg]).burn_amount = U64(3)
          /\ Len(DecodeWrapper(db.payloads[dg]).transactions) = 2

\* C20: a PUT /messages that names an already stored payload_digest,
\* carries an empty payload and declares new valid burn outputs is
\* accepted, merges the new burn outputs into the stored wrapper, and
\* writes only the payloads column family, leaving every index row in
\* messages unchanged.
C20_UpdateTouchesPayloadsOnly ==
    [][(/\ resp'.op = "put_message"
        /\ resp'.args[1].payload = <<>>
        /\ resp'.args[1].payload_digest \in DOMAIN db.payloads
        /\ BurnsValid(resp'.args[1])
        /\ BurnPairs(resp'.args[1].transactions)
              \cap BurnPairs(StoredMessage(db, resp'.args[1]).transactions)
              = {}
        /\ node.up)
       => /\ resp'.ret.err = ""
          /\ db'.messages = db.messages
          /\ BurnPairs(StoredMessage(db', resp'.args[1]).transactions)
               = BurnPairs(StoredMessage(db, resp'.args[1]).transactions)
                   \cup BurnPairs(resp'.args[1].transactions)]_vars

---------------------------------------------------------------------------
(* GET /messages applied to the stores push and delete leave *)

\* a parameter that is no hex string
NotHex == [valid |-> FALSE, bytes |-> <<>>]

QueryHex == {Hex(<<0, 0>>), Hex(<<1, 0>>), NotHex}
OptQueryHex == {None} \cup {Some(h) : h \in QueryHex}

\* the query strings of a client: a digest, alone or with a start, and
\* every combination of the four bounds
Queries ==
    {[NoQuery EXCEPT !.digest = Some(h), !.start_time = s] :
        h \in QueryHex, s \in {None, Some(1)}}
      \cup {[NoQuery EXCEPT !.start_time = s, !.start_digest = sd,
                            !.end_time = e, !.end_digest = ed] :
              s \in {None, Some(1)}, sd \in OptQueryHex,
              e \in {None, Some(2)}, ed \in OptQueryHex}

GetMessages(addr, query, namespace) ==
    /\ nops < MaxOps
    /\ \E r \in {get_messages(addr, query,
                     [db |-> db, node |-> node, msg_bus |-> msg_bus,
                      feed_bus |-> feed_bus, wallet |-> wallet], namespace)} :
          /\ resp' = [op |-> "get_messages", args |-> <<addr, namespace, query>>,
                      ret |-> r]
          /\ db' = r.st.db
    /\ nops' = nops + 1
    /\ UNCHANGED netVars

QueryNext ==
    \/ \E a \in Addrs, ns \in Namespaces, t \in Times, dg \in Digests :
          Push(a, ns, t, dg)
    \/ \E a \in Addrs, ns \in Namespaces, dg \in Digests :
          RemoveByDigest(a, ns, dg)
    \/ \E a \in Addrs, ns \in Namespaces, query \in Queries :
          GetMessages(a, query, ns)

SpecQuery == StoreInit /\ [][QueryNext]_vars

\* a hex parameter that decodes to a digest of addr's digest index
InIndex(d, addr, hex) ==
    hex.valid /\ digest_key(addr, hex.bytes) \in DOMAIN d

\* the range request is one of those the handler has to refuse
RefusedRange(d, addr, query) ==
    \/ query.start_time = None /\ query.start_digest = None
    \/ query.start_time # None /\ query.start_digest # None
    \/ query.end_time # None /\ query.end_digest # None
    \/ query.start_digest # None /\ ~InIndex(d, addr, query.start_digest[1])
    \/ query.end_digest # None /\ ~InIndex(d, addr, query.end_digest[1])

\* the bound a time or a digest of the index stands for
BoundOf(d, addr, opt_time, opt_digest, namespace) ==
    IF opt_time # None THEN msg_prefix(addr, opt_time[1], namespace)
    ELSE msg_key(addr, d[digest_key(addr, opt_digest[1].bytes)],
                 opt_digest[1].bytes, namespace)

\* C21: GET /messages with a digest returns the message of that digest, or
\* 404 when none is stored; without a digest, a request with no start, with
\* both starts, with both ends, or with a start or end digest that is not
\* in the digest index is answered 400, and every other request is answered
\* with the range scan between its bounds.
C21_GetMessagesSelection ==
    resp.op = "get_messages" =>
       LET addr == resp.args[1]
           namespace == resp.args[2]
           query == resp.args[3]
           r == resp.ret
       IN  IF query.digest # None
           THEN query.digest[1].valid =>
                   IF Stored(db, addr, namespace, query.digest[1].bytes)
                   THEN /\ r.rej = None
                        /\ r.resp.status = 200
                        /\ r.resp.body.payload_digest = query.digest[1].bytes
                   ELSE r.rej # None /\ r.rej[1].status = 404
           ELSE IF RefusedRange(db, addr, query)
           THEN r.rej # None /\ r.rej[1].status = 400
           ELSE /\ r.rej = None
                /\ r.resp.status = 200
                /\ r.resp.body =
                      get_messages_range(db,
                          BoundOf(db, addr, query.start_time,
                                  query.start_digest, namespace),
                          IF query.end_time = None /\ query.end_digest = None
                          THEN None
                          ELSE Some(BoundOf(db, addr, query.end_time,
                                            query.end_digest, namespace)))

---------------------------------------------------------------------------
(* The websocket actors driven by clients, the clock, PUT handlers and    *)
(* the bus mailbox                                                         *)

MaxSockets == 2
\* the clients are heard up to this instant
MaxInstant == 5001
\* the time between the return of ws_connect and Actor::started, at most
MaxStartDelay == 1
MaxBusPuts == 1
MaxPuts == 2
MaxUnixNow == 2

AddrStrs == {"addr11", "addr12", "addr?"}
ClientFrames == {"Ping", "Pong", "Close"}

\* a client opens /ws/{addr}: the handler runs up to its await
Connect(addr_str) ==
    /\ Cardinality(DOMAIN ws.sockets) < MaxSockets
    /\ ws.instant <= MaxInstant
    /\ ws' = ws_connect(ws, addr_str, Cardinality(DOMAIN ws.sockets) + 1)
    /\ resp' = [op |-> "ws_connect", args |-> <<addr_str>>, ret |-> <<>>]
    /\ UNCHANGED <<db, nops, node, msg_bus, feed_bus, wallet, tasks>>

\* the handler of socket s goes on after its await and returns the
\* response, with which the server begins to run the actor, delay after
\* the handler went on
ConnectResume(s, delay) ==
    /\ s \in DOMAIN ws.sockets
    /\ ~ws.sockets[s].running /\ ~ws.sockets[s].stopped
    /\ NewSocketHandled(ws, s)
    /\ ws' = [ws EXCEPT !.sockets[s] = started(@, ws.instant + delay)]
    /\ resp' = [op |-> "ws_started", args |-> <<s>>, ret |-> <<>>]
    /\ UNCHANGED <<db, nops, node, msg_bus, feed_bus, wallet, tasks>>

\* the heartbeat interval of socket s has elapsed
Due(w, s) == w.sockets[s].running /\ w.sockets[s].interval <= w.instant

\* the instant at which the next interval of a running socket fires
NextInterval(w) ==
    CHOOSE t \in {w.sockets[s].interval :
                      s \in {r \in DOMAIN w.sockets : w.sockets[r].running}} :
       \A s \in DOMAIN w.sockets :
          w.sockets[s].running => t <= w.sockets[s].interval

\* time passes until the next interval fires, once every heartbeat that was
\* due has run
Tick ==
    /\ \E s \in DOMAIN ws.sockets : ws.sockets[s].running
    /\ \A s \in DOMAIN ws.sockets : ~Due(ws, s)
    /\ ws' = [ws EXCEPT !.instant = NextInterval(ws)]
    /\ resp' = [op |-> "tick", args |-> <<>>, ret |-> <<>>]
    /\ UNCHANGED <<db, nops, node, msg_bus, feed_bus, wallet, tasks>>

\* the interval of socket s fires, and fires again HEARTBEAT_INTERVAL later
Heartbeat(s) ==
    /\ s \in DOMAIN ws.sockets
    /\ Due(ws, s)
    /\ ws' = hb([ws EXCEPT !.sockets[s].interval = @ + HEARTBEAT_INTERVAL],
                s)
    /\ resp' = [op |-> "hb", args |-> <<s>>, ret |-> <<>>]
    /\ UNCHANGED <<db, nops, node, msg_bus, feed_bus, wallet, tasks>>

\* a frame of the client of socket s arrives
ClientFrame(s, msg) ==
    /\ s \in DOMAIN ws.sockets
    /\ ws.sockets[s].running
    /\ msg = "Close" \/ ws.instant <= MaxInstant
    /\ ws' = StreamHandler_handle(ws, s, msg)
    /\ resp' = [op |-> "frame", args |-> <<s, msg>>, ret |-> <<>>]
    /\ UNCHANGED <<db, nops, node, msg_bus, feed_bus, wallet, tasks>>

\* the bus handles the first message of its mailbox
BusHandle ==
    /\ ws.mailbox # <<>>
    /\ ws' = MessageBus_handle([ws EXCEPT !.mailbox = Tail(@)],
                               Head(ws.mailbox))
    /\ resp' = [op |-> "bus", args |-> <<Head(ws.mailbox)>>, ret |-> <<>>]
    /\ UNCHANGED <<db, nops, node, msg_bus, feed_bus, wallet, tasks>>

\* socket s handles the first SendMessageSet of its mailbox
Deliver(s) ==
    /\ s \in DOMAIN ws.sockets
    /\ ws.sockets[s].running /\ ws.sockets[s].mailbox # <<>>
    /\ ws' = MessagingSocket_handle_SendMessageSet(ws, s)
    /\ resp' = [op |-> "binary", args |-> <<s>>, ret |-> <<>>]
    /\ UNCHANGED <<db, nops, node, msg_bus, feed_bus, wallet, tasks>>

SocketIds == 1..MaxSockets

\* the keys of sender_map
Senders(messages) ==
    {Hash160(messages[i].sender_pub_key) : i \in 1..Len(messages)}

\* the orders in which a HashMap with these keys can iterate, which its
\* hasher decides
Orders(keys) ==
    {o \in [1..Cardinality(keys) -> keys] :
        \A i, j \in 1..Cardinality(keys) : i # j => o[i] # o[j]}

\* "send over WS to senders", for (sender_pubkey_hash, messages) in
\* sender_map: a send for every sender, in the iteration order of the map
SendsToSenders(iteration, timestamp, messages) ==
    [i \in 1..Len(iteration) |->
        SendMessage(iteration[i],
                    TimedMessageSet(timestamp,
                                    MessagesOf(messages, iteration[i])))]

\* "send over WS to receiver" and "send over WS to senders": the messages
\* handed to the bus, in the order of the sends
put_message_sends(addr, timestamp, messages, iteration) ==
    <<SendMessage(addr, TimedMessageSet(timestamp, messages))>>
       \o SendsToSenders(iteration, timestamp, messages)

\* the message sets of the concurrent clients: a self-send of address 11, a
\* message of another sender with a bad stamp, and a self-send followed by
\* a stamped message of another sender
OrderMessageSets ==
    {<<Message(1, ShortPayload, <<>>)>>,
     <<Message(2, ShortPayload, <<BadOutpoint>>)>>,
     <<Message(1, ShortPayload, <<>>),
       Message(2, ShortPayload, <<GoodOutpoint(ShortPayload)>>)>>}

\* the handler that has verified its message set
Verified(w, addr, messages) ==
    [w EXCEPT !.puts = DbPut(@, Cardinality(DOMAIN @) + 1,
                             [pc |-> "verified", addr |-> addr,
                              messages |-> messages, timestamp |-> 0,
                              sends |-> <<>>])]

\* a PUT arrives: the set is decoded and the first loop verifies it up to
\* the first send_tx of a stamp, or to its end when no stamp is to be
\* broadcast
PutBegin(addr, messages) ==
    /\ nops < MaxPuts
    /\ \E v \in {VerifyCollect(addr, messages, 1, Answering(node))} :
       \E task \in {Task("put_begin", <<addr, messages>>,
                          CallsOf(node, v.node), <<>>)} :
          IF task.plan = <<>>
          THEN /\ ws' = IF v.ret # "Ok" THEN ws
                        ELSE Verified(ws, addr, v.messages)
               /\ resp' = [op |-> "put_begin", args |-> <<addr, messages>>,
                           ret |-> Some(v.ret)]
               /\ tasks' = tasks
          ELSE /\ resp' = [op |-> "await", args |-> task.args, ret |-> <<>>]
               /\ tasks' = Append(tasks, task)
               /\ ws' = ws
    /\ nops' = nops + 1
    /\ UNCHANGED <<db, node, msg_bus, feed_bus, wallet>>

\* the first loop goes on after its last send_tx, or ends with the
\* TxReject of the send_tx that failed
PutBeginResume(i) ==
    /\ i \in 1..Len(tasks)
    /\ tasks[i].op = "put_begin"
    /\ ~Pending(tasks[i])
    /\ \E v \in {VerifyCollect(tasks[i].args[1], tasks[i].args[2], 1,
                                Seen(node, tasks[i]))} :
          /\ ws' = IF v.ret # "Ok" THEN ws
                   ELSE Verified(ws, tasks[i].args[1], v.messages)
          /\ resp' = [op |-> "put_begin", args |-> tasks[i].args,
                      ret |-> Some(v.ret)]
    /\ tasks' = RemoveAt(tasks, i)
    /\ UNCHANGED <<db, nops, node, msg_bus, feed_bus, wallet>>

\* let timestamp = get_unix_now()
PutTime(h) ==
    /\ h \in DOMAIN ws.puts
    /\ ws.puts[h].pc = "verified"
    /\ ws' = [ws EXCEPT !.puts[h].timestamp = ws.unix_now,
                        !.puts[h].pc = "timed"]
    /\ resp' = [op |-> "put_time", args |-> <<h>>, ret |-> <<>>]
    /\ UNCHANGED <<db, nops, node, msg_bus, feed_bus, wallet, tasks>>

\* the second loop pushes the messages to the store and fills sender_map,
\* whose iteration order fixes the order of the sends
PutStore(h) ==
    /\ h \in DOMAIN ws.puts
    /\ ws.puts[h].pc = "timed"
    /\ db' = PushAll(db, ws.puts[h].addr, ws.puts[h].timestamp,
                     ws.puts[h].messages, 1, MESSAGE_NAMESPACE)
    /\ \E iteration \in Orders(Senders(ws.puts[h].messages)) :
          ws' = [ws EXCEPT
                   !.puts[h].pc = "stored",
                   !.puts[h].sends =
                       put_message_sends(ws.puts[h].addr,
                                         ws.puts[h].timestamp,
                                         ws.puts[h].messages, iteration)]
    /\ resp' = [op |-> "put_store", args |-> <<h>>, ret |-> <<>>]
    /\ UNCHANGED <<nops, node, msg_bus, feed_bus, wallet, tasks>>

\* the next frame is handed to the bus; after the last the handler responds
PutSend(h) ==
    /\ h \in DOMAIN ws.puts
    /\ ws.puts[h].pc = "stored"
    /\ ws' = [ws EXCEPT
                !.mailbox = Append(@, Head(ws.puts[h].sends)),
                !.puts[h].sends = Tail(@),
                !.puts[h].pc = IF Len(ws.puts[h].sends) = 1
                               THEN "done" ELSE @]
    /\ resp' = [op |-> "put_send", args |-> <<h>>,
                ret |-> IF Len(ws.puts[h].sends) = 1
                        THEN Some("Ok") ELSE None]
    /\ UNCHANGED <<db, nops, node, msg_bus, feed_bus, wallet, tasks>>

\* a millisecond of the wall clock passes
Millisecond ==
    /\ ws.unix_now < MaxUnixNow
    /\ ws' = [ws EXCEPT !.unix_now = @ + 1]
    /\ resp' = [op |-> "ms", args |-> <<>>, ret |-> <<>>]
    /\ UNCHANGED <<db, nops, node, msg_bus, feed_bus, wallet, tasks>>

\* the PUT of an empty message set
BusPut(addr) == nops < MaxBusPuts /\ PutBegin(addr, <<>>)

BusNext ==
    \/ \E addr_str \in AddrStrs : Connect(addr_str)
    \/ \E s \in SocketIds, delay \in 1..MaxStartDelay :
          ConnectResume(s, delay)
    \/ Tick
    \/ \E s \in SocketIds : Heartbeat(s)
    \/ \E s \in SocketIds, msg \in ClientFrames : ClientFrame(s, msg)
    \/ \E addr \in {Hash160(1), Hash160(2)} : BusPut(addr)
    \/ \E h \in 1..MaxBusPuts : PutTime(h)
    \/ \E h \in 1..MaxBusPuts : PutStore(h)
    \/ \E h \in 1..MaxBusPuts : PutSend(h)
    \/ BusHandle
    \/ \E s \in SocketIds : Deliver(s)

SpecBus == StoreInit /\ [][BusNext]_vars

\* socket s is a live subscriber of addr: its actor has not stopped and
\* the bus holds its address under addr
LiveSubscriber(s, addr) ==
    /\ s \in DOMAIN ws.sockets
    /\ ~ws.sockets[s].stopped
    /\ ws.sockets[s].addr_raw = addr
    /\ addr \in DOMAIN ws.ws_map
    /\ Position(ws.ws_map[addr], s) # 0

\* C22: once the bus has handled every message of its mailbox, the map has
\* an entry for an address only if a live subscriber is registered for it.
C22_EntryOnlyWithSubscriber ==
    ws.mailbox = <<>> =>
       \A addr \in DOMAIN ws.ws_map :
          \E s \in DOMAIN ws.sockets : LiveSubscriber(s, addr)

\* time passes, and the arbiter runs every actor that has work: the bus
\* handles the messages of its mailbox, and the interval of a running
\* socket fires
BusFairness ==
    /\ WF_vars(Tick)
    /\ WF_vars(BusHandle)
    /\ \A s \in SocketIds : WF_vars(Heartbeat(s))

SpecBusLive == StoreInit /\ [][BusNext]_vars /\ BusFairness

\* no Ping or Pong of socket s for longer than CLIENT_TIMEOUT
Silent(s) ==
    /\ s \in DOMAIN ws.sockets
    /\ ws.sockets[s].running
    /\ ws.instant - ws.sockets[s].hb > CLIENT_TIMEOUT

Stopped(s) == s \in DOMAIN ws.sockets /\ ws.sockets[s].stopped

\* the bus has handled the RemoveSocket of the stopped socket s
Removed(s) ==
    /\ Stopped(s)
    /\ \A addr \in DOMAIN ws.ws_map : Position(ws.ws_map[addr], s) = 0
    /\ \A i \in 1..Len(ws.mailbox) :
          ws.mailbox[i].type = "SendMessage" \/ ws.mailbox[i].actor_addr # s

---------------------------------------------------------------------------
(* PUT /messages handlers running concurrently, and a subscriber *)

OrderNext ==
    \/ Connect("addr11")
    \/ \E s \in SocketIds, delay \in 1..MaxStartDelay :
          ConnectResume(s, delay)
    \/ \E messages \in OrderMessageSets : PutBegin(Hash160(1), messages)
    \/ \E i \in 1..MaxPuts : NodeAnswer(i)
    \/ NodeFlip
    \/ \E i \in 1..MaxPuts : PutBeginResume(i)
    \/ \E h \in 1..MaxPuts : PutTime(h)
    \/ \E h \in 1..MaxPuts : PutStore(h)
    \/ \E h \in 1..MaxPuts : PutSend(h)
    \/ Millisecond
    \/ BusHandle
    \/ \E s \in SocketIds : Deliver(s)

SpecOrder == StoreInit /\ [][OrderNext]_vars

\* C23: the frames a subscriber has received are in the order of the
\* server timestamps under which their messages were pushed to the store.
C23_FramesInStoreOrder ==
    \A s \in DOMAIN ws.sockets :
       \A i, j \in 1..Len(ws.sockets[s].frames) :
          i < j => ws.sockets[s].frames[i].server_time
                      <= ws.sockets[s].frames[j].server_time

---------------------------------------------------------------------------
(* The fan-out of PUT /feeds *)

\* the step is an accepted PUT /feeds/{addr}
FeedPutStep ==
    /\ resp'.op = "request"
    /\ resp'.args[1].method = "PUT"
    /\ Len(resp'.args[1].path) = 2
    /\ resp'.args[1].path[1] = "feeds"
    /\ Ran("feeds_put", resp')
    /\ resp'.ret.status = 200

\* C24: an accepted PUT /feeds/{addr} sends its frame on the feed channel
\* of addr when that channel has subscribers, and sends nothing on the
\* message channels.
C24_FeedPutFansOutToFeedBus ==
    [][FeedPutStep =>
         LET addr == address_decode(resp'.args[1].path[2])[1]
         IN  /\ msg_bus' = msg_bus
             /\ addr \in DOMAIN feed_bus =>
                   /\ Len(feed_bus'[addr]) > Len(feed_bus[addr])
                   /\ feed_bus'[addr][Len(feed_bus[addr]) + 1].messages
                        = [i \in 1..Len(resp'.args[1].body.value.messages) |->
                              Truncate(resp'.args[1].body.value.messages[i])]
      ]_vars


---------------------------------------------------------------------------
(* Error responses: the bodies of 4xx and 5xx answers *)

\* an answer of the relay server to a request that is an error response
ErrorResponse ==
    /\ resp.op = "request"
    /\ resp.ret.status >= 400

\* Body::empty(), or a body made from an empty message
EmptyBody(body) ==
    ToString(body) \in {ToString(<<>>), ToString("")}

\* C25: every error response with a 5xx status has an empty body, and
\* every error response with a 4xx status carries a non-empty message
C25_ErrorBodies ==
    ErrorResponse =>
        IF resp.ret.status >= 500
        THEN EmptyBody(resp.ret.body)
        ELSE ~EmptyBody(resp.ret.body)


---------------------------------------------------------------------------
(* lib/cashweb-bitcoin/src/var_int.rs: the variable-length integer.  A u64 *)
(* is held as its eight little-endian bytes; a buffer is a sequence of     *)
(* bytes.                                                                  *)

\* whether the bytes of a value from the n-th on are all zero, which is
\* value < 2^(8 * (n - 1))
ZeroFrom(value, n) == \A i \in n..Len(value) : value[i] = 0

\* BufMut::put_uint_le: the low nbytes bytes of the value
put_uint_le(value, nbytes) == SubSeq(value, 1, nbytes)

\* Buf::get_uint_le: the next nbytes bytes, widened to a u64
get_uint_le(buf, nbytes) == SubSeq(buf, 1, nbytes) \o Rep(8 - nbytes, 0)

\* the arm of `match self.0` a value falls in: 1, 3, 5 or 9
encoded_len(value) ==
    IF ZeroFrom(value, 2) /\ value[1] <= 252 THEN 1
    ELSE IF ZeroFrom(value, 3) THEN 3
    ELSE IF ZeroFrom(value, 5) THEN 5
    ELSE 9

\* VarInt::encode_raw
encode_raw(value) ==
    CASE encoded_len(value) = 1 -> put_uint_le(value, 1)
      [] encoded_len(value) = 3 -> <<253>> \o put_uint_le(value, 2)
      [] encoded_len(value) = 5 -> <<254>> \o put_uint_le(value, 4)
      [] OTHER -> <<255>> \o put_uint_le(value, 8)

\* a decoder that lets 0xfd carry the value 0xfc
decode_FdFrom252(buf) ==
    IF Len(buf) = 0 THEN [err |-> "TooShort"]
    ELSE LET first_byte == buf[1]
             rest == Tail(buf)
         IN  CASE first_byte = 255 ->
                    IF Len(rest) < 8 THEN [err |-> "TooShort"]
                    ELSE LET x == get_uint_le(rest, 8)
                         IN  IF ZeroFrom(x, 5) THEN [err |-> "NonMinimal"]
                             ELSE [err |-> "", value |-> x,
                                   rest |-> SubSeq(rest, 9, Len(rest))]
               [] first_byte = 254 ->
                    IF Len(rest) < 4 THEN [err |-> "TooShort"]
                    ELSE LET x == get_uint_le(rest, 4)
                         IN  IF ZeroFrom(x, 3) THEN [err |-> "NonMinimal"]
                             ELSE [err |-> "", value |-> x,
                                   rest |-> SubSeq(rest, 5, Len(rest))]
               [] first_byte = 253 ->
                    IF Len(rest) < 2 THEN [err |-> "TooShort"]
                    ELSE LET x == get_uint_le(rest, 2)
                         IN  IF ZeroFrom(x, 2) /\ x[1] < 252
                             THEN [err |-> "NonMinimal"]
                             ELSE [err |-> "", value |-> x,
                                   rest |-> SubSeq(rest, 3, Len(rest))]
               [] OTHER ->
                    [err |-> "", value |-> <<first_byte>> \o Rep(7, 0),
                     rest |-> rest]

\* VarInt::decode: the value and what is left of the buffer, or the error
decode(buf) ==
    IF Len(buf) = 0 THEN [err |-> "TooShort"]
    ELSE LET first_byte == buf[1]
             rest == Tail(buf)
         IN  CASE first_byte = 255 ->
                    IF Len(rest) < 8 THEN [err |-> "TooShort"]
                    ELSE LET x == get_uint_le(rest, 8)
                         IN  IF ZeroFrom(x, 5) THEN [err |-> "NonMinimal"]
                             ELSE [err |-> "", value |-> x,
                                   rest |-> SubSeq(rest, 9, Len(rest))]
               [] first_byte = 254 ->
                    IF Len(rest) < 4 THEN [err |-> "TooShort"]
                    ELSE LET x == get_uint_le(rest, 4)
                         IN  IF ZeroFrom(x, 3) THEN [err |-> "NonMinimal"]
                             ELSE [err |-> "", value |-> x,
                                   rest |-> SubSeq(rest, 5, Len(rest))]
               [] first_byte = 253 ->
                    IF Len(rest) < 2 THEN [err |-> "TooShort"]
                    ELSE LET x == get_uint_le(rest, 2)
                         IN  IF ZeroFrom(x, 2) /\ x[1] < 253
                             THEN [err |-> "NonMinimal"]
                             ELSE [err |-> "", value |-> x,
                                   rest |-> SubSeq(rest, 3, Len(rest))]
               [] OTHER ->
                    [err |-> "", value |-> <<first_byte>> \o Rep(7, 0),
                     rest |-> rest]

\* the values: the lowest byte around the one-byte boundary, the bytes of
\* the lower half 0, 1 or 0xff, those of the upper half 0 or 0xff.  They
\* hold 0, 0xfc, 0xfd, 0xffff, 0x10000, 0xffffffff, 0x100000000 and u64::MAX.
LowBytes == {0, 1, 252, 253, 254, 255}
MidBytes == {0, 1, 255}
HighBytes == {0, 255}
VarInts ==
    {<<b>> \o m \o h :
        b \in LowBytes, m \in [1..3 -> MidBytes], h \in [1..4 -> HighBytes]}

\* the buffers: a first byte then up to MaxPayload bytes, and the
\* encodings, minimal or not, around the bounds of the three long forms
MaxPayload == 9
FirstBytes == {0, 252, 253, 254, 255}
VarIntBuffers ==
    {<<>>} \cup
    UNION {{<<f>> \o p : f \in FirstBytes, p \in [1..k -> HighBytes]} :
              k \in 0..MaxPayload}
      \cup {<<253, b, c>> : b \in LowBytes, c \in MidBytes}
      \cup {<<254, b, c, d, 0>> : b \in HighBytes, c \in HighBytes,
                                  d \in MidBytes}
      \cup {<<255, b, b, b, c, d, 0, 0, 0>> : b \in HighBytes,
                                  c \in HighBytes, d \in MidBytes}

VarIntEncode ==
    /\ nops < 1
    /\ \E value \in VarInts :
          resp' = [op |-> "VarInt::encode_raw", args |-> <<value>>,
                   ret |-> encode_raw(value)]
    /\ nops' = nops + 1
    /\ UNCHANGED <<db, node, msg_bus, feed_bus, wallet, ws, tasks>>

VarIntDecode ==
    /\ nops < 1
    /\ \E buf \in VarIntBuffers :
          resp' = [op |-> "VarInt::decode", args |-> <<buf>>,
                   ret |-> decode(buf)]
    /\ nops' = nops + 1
    /\ UNCHANGED <<db, node, msg_bus, feed_bus, wallet, ws, tasks>>

VarIntNext ==
    \/ VarIntEncode
    \/ VarIntDecode

SpecVarInt == StoreInit /\ [][VarIntNext]_vars

\* the bytes that follow the first byte of a complete encoding
PayloadLen(first_byte) ==
    CASE first_byte = 255 -> 8
      [] first_byte = 254 -> 4
      [] first_byte = 253 -> 2
      [] OTHER -> 0

\* a buffer that ends before the encoding its first byte announces does
Truncated(buf) == Len(buf) = 0 \/ Len(buf) < 1 + PayloadLen(buf[1])

\* a complete encoding whose value has a shorter form
NonMinimalEncoding(buf) ==
    /\ ~Truncated(buf)
    /\ PayloadLen(buf[1]) > 0
    /\ encoded_len(get_uint_le(Tail(buf), PayloadLen(buf[1])))
          < 1 + PayloadLen(buf[1])

\* C26: a value encodes to the shortest of the four forms and decodes back
\* to itself; decode answers NonMinimal to every complete encoding whose
\* value has a shorter form and TooShort to every truncated buffer
C26_VarIntRoundTrip ==
    /\ resp.op = "VarInt::encode_raw" =>
          LET value == resp.args[1]
              raw == resp.ret
          IN  /\ Len(raw) = encoded_len(value)
              /\ Len(raw) = 1 <=> (ZeroFrom(value, 2) /\ value[1] <= 252)
              /\ Len(raw) = 3 => raw[1] = 253 /\ ZeroFrom(value, 3)
              /\ Len(raw) = 5 => raw[1] = 254 /\ ZeroFrom(value, 5)
              /\ Len(raw) = 9 => raw[1] = 255 /\ ~ZeroFrom(value, 5)
              /\ Len(raw) \in {1, 3, 5, 9}
              /\ Len(raw) > 1 => Tail(raw) = SubSeq(value, 1, Len(raw) - 1)
              /\ Len(raw) = 1 => raw = <<value[1]>>
              /\ decode(raw) = [err |-> "", value |-> value, rest |-> <<>>]
    /\ resp.op = "VarInt::decode" =>
          LET buf == resp.args[1]
          IN  /\ Truncated(buf) => resp.ret.err = "TooShort"
              /\ NonMinimalEncoding(buf) => resp.ret.err = "NonMinimal"
              /\ resp.ret.err = "" =>
                    encode_raw(resp.ret.value) \o resp.ret.rest = buf

\* 0x10000 was encoded in five bytes
C26_Witness ==
    /\ resp.op = "VarInt::encode_raw"
    /\ resp.args[1] = <<0, 0, 1, 0, 0, 0, 0, 0>>
    /\ resp.ret = <<254, 0, 0, 1, 0>>


---------------------------------------------------------------------------
(* PUT /messages: what a refused request leaves behind *)

\* C27: a PUT /messages writes to the store or sends on the bus only when
\* it is accepted, and it is accepted only when the payload and the stamps
\* of every message of another sender have passed verification and every
\* one of their stamp transactions has been broadcast; a PUT that is
\* refused, for a message that fails verification or for a broadcast that
\* fails, leaves the store and the bus as they were, and so does a PUT
\* that waits for the node
C27_NoWriteBeforeVerifyAndBroadcast ==
    [][IF resp'.op \in {"await", "answer"}
       THEN db' = db /\ msg_bus' = msg_bus
       ELSE resp'.op = "put" =>
         LET addr == resp'.args[1]
             ms == resp'.args[2]
             others == {i \in 1..Len(ms) :
                           Hash160(ms[i].sender_pub_key) # addr}
             accepted == resp'.ret.status = 200
         IN  /\ (db' # db \/ msg_bus' # msg_bus) => accepted
             /\ accepted =>
                   /\ \A i \in others :
                         /\ IsPublicKey(ms[i].serialized_payload.destination)
                         /\ StampValid(ms[i])
                   /\ resp'.task.err = ""
                   /\ Accepted(resp'.task) = StampTxsOfOthers(addr, ms)
                   /\ InOrder(StampTxsOfOthers(addr, ms), node'.sent)
             /\ ~accepted => db' = db /\ msg_bus' = msg_bus]_vars

\* a PUT whose stamp is valid was refused because the broadcast failed, and
\* the store is empty
C27_Witness ==
    /\ resp.op = "put"
    /\ resp.ret.error = "TxReject"
    /\ resp.task.err = "Http"
    /\ StampValid(resp.args[2][1])
    /\ db = <<>>
    /\ DOMAIN msg_bus # {}


---------------------------------------------------------------------------
(* src/net/payments.rs: payment_handler, the POST /payments handler of the *)
(* actix server.  WalletState::check_outputs and generate_token are not    *)
(* part of the sources: the answer of check_outputs is an input of the     *)
(* handler, and the token is held as the merchant data it is made from.    *)

\* payment_handler: the answer (err "" when accepted) and the node after
payment_handler(headers, body, check_outputs, n) ==
    IF ~headers.content_type THEN [err |-> "Accept", token |-> None, node |-> n]
    ELSE IF ~headers.accept THEN [err |-> "Content", token |-> None, node |-> n]
    ELSE IF body.kind # "Payment"
    THEN [err |-> "Decode", token |-> None, node |-> n]
    ELSE LET payment == body.value
         IN  IF payment.transactions = <<>>
             THEN [err |-> "NoTx", token |-> None, node |-> n]
             ELSE LET tx_raw == payment.transactions[1]
                      sent == send_tx(n, tx_raw)
                  IN  IF ~tx_raw.decodes
                      THEN [err |-> "TxDeserialize", token |-> None,
                            node |-> n]
                      ELSE IF ~check_outputs
                      THEN [err |-> "InvalidOutputs", token |-> None,
                            node |-> n]
                      ELSE IF ~sent.ok
                      THEN [err |-> "TxReject", token |-> None,
                            node |-> sent.node]
                      ELSE IF payment.merchant_data = None
                      THEN [err |-> "NoMerchantDat", token |-> None,
                            node |-> sent.node]
                      ELSE [err |-> "", token |-> payment.merchant_data,
                            node |-> sent.node]

\* the payments a client posts: no, one or two transactions, with or
\* without merchant data
HandlerPayments ==
    [merchant_data : {None, Some(Hash160(1))},
     transactions : {<<>>, <<PayTx(1, TokenFee)>>, <<MalformedTx>>,
                     <<PayTx(1, TokenFee), PayTx(2, TokenFee)>>}]

HandlerBodies ==
    {NoBody} \cup {[kind |-> "Payment", value |-> p] : p \in HandlerPayments}

HandlerHeaders ==
    {Headers(None), [Headers(None) EXCEPT !.accept = FALSE],
     [Headers(None) EXCEPT !.content_type = FALSE]}

\* POST /payments is answered by payment_handler: the handler up to its
\* awaited send_tx, or to its end when a check before it fails
PaymentHandler(headers, body, check_outputs) ==
    /\ \E r \in {payment_handler(headers, body, check_outputs,
                                  Answering(node))} :
       \E task \in {Task("payment_handler", <<headers, body, check_outputs>>,
                          CallsOf(node, r.node), <<>>)} :
          IF task.plan = <<>>
          THEN /\ resp' = [op |-> "payment_handler", args |-> task.args,
                            ret |-> [err |-> r.err, token |-> r.token],
                            task |-> task]
               /\ tasks' = tasks
          ELSE /\ Len(tasks) < MaxTasks
               /\ resp' = [op |-> "await", args |-> task.args, ret |-> <<>>]
               /\ tasks' = Append(tasks, task)
    /\ nops' = nops + 1
    /\ UNCHANGED <<db, node, msg_bus, feed_bus, wallet, ws>>

\* payment_handler goes on after the awaited send_tx
PaymentHandlerResume(i) ==
    /\ i \in 1..Len(tasks)
    /\ tasks[i].op = "payment_handler"
    /\ ~Pending(tasks[i])
    /\ \E r \in {payment_handler(tasks[i].args[1], tasks[i].args[2],
                                  tasks[i].args[3], Seen(node, tasks[i]))} :
          resp' = [op |-> "payment_handler", args |-> tasks[i].args,
                   ret |-> [err |-> r.err, token |-> r.token],
                   task |-> tasks[i]]
    /\ tasks' = RemoveAt(tasks, i)
    /\ UNCHANGED <<db, nops, node, msg_bus, feed_bus, wallet, ws>>

PayHandlerNext ==
    \/ /\ nops < MaxOps
       /\ \E h \in HandlerHeaders, b \in HandlerBodies, c \in BOOLEAN :
             PaymentHandler(h, b, c)
    \/ \E i \in 1..MaxTasks : NodeAnswer(i)
    \/ \E i \in 1..MaxTasks : PaymentHandlerResume(i)
    \/ NodeFlip

SpecPayHandler == StoreInit /\ [][PayHandlerNext]_vars

\* the checks of the content of a payment: it decodes, every transaction
\* decodes, the merchant data is there, the wallet matches
ContentChecksPass(body, check_outputs) ==
    /\ body.kind = "Payment"
    /\ \A i \in 1..Len(body.value.transactions) :
          body.value.transactions[i].decodes
    /\ body.value.merchant_data # None
    /\ check_outputs

\* C28: POST /payments sends a transaction to the node only when every
\* check of the content of the payment has passed, and returns a token
\* only when every declared transaction has been broadcast
C28_BroadcastAfterChecksTokenAfterBroadcast ==
    [][resp'.op = "payment_handler" =>
         LET body == resp'.args[2]
         IN  /\ resp'.task.plan # <<>> =>
                   ContentChecksPass(body, resp'.args[3])
             /\ resp'.ret.token # None =>
                   Accepted(resp'.task) = body.value.transactions]_vars


---------------------------------------------------------------------------
(* Stamp transactions: broadcast and verification *)

\* the errors of the stamp check proper
StampCheckErrors == {"Decode", "MissingOutput", "NotP2PKH", "UnexpectedAddress"}

\* C29: when an outpoint of a message fails the stamp check, none of the
\* stamp transactions of the message has been sent to the node
C29_NoBroadcastBeforeVerification ==
    (resp.op = "verify_stamps" /\ resp.ret \in StampCheckErrors)
        => node.sent = <<>>


---------------------------------------------------------------------------
(* lib/cashweb-bitcoin/src/merkle.rs: the merkle root of a list of hashes. *)
(* A hash is the all-zero hash, a leaf, or the double SHA-256 of the       *)
(* concatenation of two hashes, held as the pair it was made from.         *)

ZeroHash == 0

\* sha256d(&[hash1, hash2].concat()), as an injective constructor
sha256d(hash1, hash2) == <<hash1, hash2>>

\* the `for idx` loop of lotus_merkle_root_inline from idx on, writing into
\* the slice it reads from (positions are 0-based in the code)
RECURSIVE InlineLoop(_, _)
InlineLoop(hashes, idx) ==
    LET len == Len(hashes)
    IN  IF idx >= (len + 1) \div 2 THEN hashes
        ELSE LET idx1 == 2 * idx
                 hash1 == hashes[idx1 + 1]
                 hash2 == IF idx1 + 1 = len THEN ZeroHash
                          ELSE hashes[idx1 + 2]
             IN  InlineLoop([hashes EXCEPT ![idx + 1] = sha256d(hash1, hash2)],
                            idx + 1)

\* what the function returns, and its panic on an overflow of the height
MerkleOk(root, height) == [panic |-> FALSE, root |-> root, height |-> height]
MerklePanic == [panic |-> TRUE, root |-> ZeroHash, height |-> 0]

\* a merkle root that pairs an unpaired last element with itself
RECURSIVE lotus_merkle_root_inline_DupLast(_, _, _)
lotus_merkle_root_inline_DupLast(hashes, height, overflow_checks) ==
    LET len == Len(hashes)
    IN  IF len = 0
        THEN IF height = 0 /\ overflow_checks THEN MerklePanic
             ELSE MerkleOk(ZeroHash, (height + 255) % 256)
        ELSE IF len = 1 THEN MerkleOk(hashes[1], height)
        ELSE LET padded == IF len % 2 = 1
                           THEN Append(hashes, hashes[len]) ELSE hashes
                 half_len == (len \div 2) + (len % 2)
             IN  IF height = 255 /\ overflow_checks THEN MerklePanic
                 ELSE lotus_merkle_root_inline_DupLast(
                          SubSeq(InlineLoop(padded, 0), 1, half_len),
                          (height + 1) % 256, overflow_checks)

\* lotus_merkle_root_inline: the root and the height, a u8.  overflow_checks
\* is the build: with it `height - 1` at 0 and `height + 1` at 255 panic,
\* without it they wrap.
RECURSIVE lotus_merkle_root_inline(_, _, _)
lotus_merkle_root_inline(hashes, height, overflow_checks) ==
    LET len == Len(hashes)
    IN  IF len = 0
        THEN IF height = 0 /\ overflow_checks THEN MerklePanic
             ELSE MerkleOk(ZeroHash, (height + 255) % 256)
        ELSE IF len = 1 THEN MerkleOk(hashes[1], height)
        ELSE LET half_len == (len \div 2) + (len % 2)
             IN  IF height = 255 /\ overflow_checks THEN MerklePanic
                 ELSE lotus_merkle_root_inline(
                          SubSeq(InlineLoop(hashes, 0), 1, half_len),
                          (height + 1) % 256, overflow_checks)

lotus_merkle_root(hashes, overflow_checks) ==
    lotus_merkle_root_inline(hashes, 1, overflow_checks)

\* the lists of hashes: up to MaxHashes hashes, each a leaf or the zero hash
MaxHashes == 6
Leaves == {ZeroHash, 1, 2}
HashLists == UNION {[1..n -> Leaves] : n \in 0..MaxHashes}

\* the heights a caller of lotus_merkle_root_inline starts from, and the
\* longest list it passes
Heights == {0, 1, 2, 254, 255}
MaxInlineHashes == 3

MerkleRoot ==
    /\ nops < 1
    /\ \E hashes \in HashLists, overflow_checks \in BOOLEAN :
          resp' = [op |-> "lotus_merkle_root",
                   args |-> <<hashes, overflow_checks>>,
                   ret |-> lotus_merkle_root(hashes, overflow_checks)]
    /\ nops' = nops + 1
    /\ UNCHANGED <<db, node, msg_bus, feed_bus, wallet, ws, tasks>>

\* lotus_merkle_root_inline on a slice and a height of the caller
MerkleRootInline ==
    /\ nops < 1
    /\ \E hashes \in {l \in HashLists : Len(l) <= MaxInlineHashes},
          height \in Heights, overflow_checks \in BOOLEAN :
          resp' = [op |-> "lotus_merkle_root_inline",
                   args |-> <<hashes, height, overflow_checks>>,
                   ret |-> lotus_merkle_root_inline(hashes, height,
                                                    overflow_checks)]
    /\ nops' = nops + 1
    /\ UNCHANGED <<db, node, msg_bus, feed_bus, wallet, ws, tasks>>

MerkleNext == MerkleRoot \/ MerkleRootInline

SpecMerkle == StoreInit /\ [][MerkleNext]_vars

\* the next level of a tree, built in a fresh array: the hashes of the
\* adjacent pairs, an unpaired last element paired with the zero hash
NextLevel(level) ==
    [i \in 1..((Len(level) + 1) \div 2) |->
        sha256d(level[2 * i - 1],
                IF 2 * i <= Len(level) THEN level[2 * i] ELSE ZeroHash)]

\* the root of the levels built one after the other, for a list that is
\* not empty
RECURSIVE RootOfLevels(_)
RootOfLevels(level) ==
    IF Len(level) = 1 THEN level[1] ELSE RootOfLevels(NextLevel(level))

\* ceil(log2 n) for n >= 1
RECURSIVE CeilLog2(_)
CeilLog2(n) == IF n <= 1 THEN 0 ELSE 1 + CeilLog2((n + 1) \div 2)

\* C31: lotus_merkle_root returns the root of the tree built level by
\* level, an unpaired last element paired with the zero hash, and the
\* height 1 + ceil(log2 n); one hash is its own root at height 1 and the
\* empty list gives the zero root at height 0; the computation in place
\* agrees with the one in fresh arrays and ends for every length
C31_MerkleRootByLevels ==
    resp.op = "lotus_merkle_root" =>
        LET hashes == resp.args[1]
            n == Len(hashes)
        IN  /\ n = 0 => resp.ret = MerkleOk(ZeroHash, 0)
            /\ n = 1 => resp.ret = MerkleOk(hashes[1], 1)
            /\ n >= 1 => resp.ret = MerkleOk(RootOfLevels(hashes),
                                             1 + CeilLog2(n))

\* the root of five hashes, where the first and the second level have an
\* unpaired last element
C31_Witness ==
    /\ resp.op = "lotus_merkle_root"
    /\ Len(resp.args[1]) = 5
    /\ ~resp.ret.panic
    /\ resp.ret.height = 4
    /\ resp.ret.root =
          <<<<<<1, 2>>, <<1, 2>>>>, <<<<1, ZeroHash>>, ZeroHash>>>>


---------------------------------------------------------------------------
(* Deleting by digest a message that was pushed more than once *)

\* the messages a range scan over all of (a, ns) returns
ScanAll(d, a, ns) == get_messages_range(d, msg_prefix(a, 0, ns), None).messages

\* C32: after delete_by_digest(addr, ns, d) has reported success, neither
\* the read by digest nor a range scan over (addr, ns) returns a message
\* with digest d
C32_DeletedDigestIsGone ==
    (resp.op = "remove_digest" /\ resp.ret # None) =>
        LET a == resp.args[1]
            ns == resp.args[2]
            dg == resp.args[3]
            got == get_message_by_digest(db, a, dg, ns)
            scan == ScanAll(db, a, ns)
        IN  /\ got = None \/ got[1].payload_digest # dg
            /\ \A i \in 1..Len(scan) : scan[i].payload_digest # dg


---------------------------------------------------------------------------
(* The message namespace and the feed namespace of one address *)

\* a range read that starts at the message of a digest (None when the
\* digest is not in the index)
DigestRange(d, a, dg, ns) ==
    LET opt_key == get_msg_key_by_digest(d, a, dg, ns)
    IN  IF opt_key = None THEN None
        ELSE Some(get_messages_range(d, opt_key[1], None).messages)

\* the rows delete_by_digest removes
RemovedByDigest(d, a, dg, ns) ==
    DOMAIN d \ DOMAIN remove_message_by_digest(d, a, dg, ns).db

\* C33: pushing or deleting a digest under one namespace changes neither
\* what get_by_digest and a digest-bounded range read return under the
\* other namespace nor what delete_by_digest removes there
C33_NamespacesIndependent ==
    [][resp'.op \in {"push", "remove_digest"} =>
         \A ns \in {MESSAGE_NAMESPACE, FEED_NAMESPACE} \ {resp'.args[2]} :
            \A a \in Addrs, dg \in Digests :
               /\ get_message_by_digest(db', a, dg, ns)
                     = get_message_by_digest(db, a, dg, ns)
               /\ DigestRange(db', a, dg, ns) = DigestRange(db, a, dg, ns)
               /\ RemovedByDigest(db', a, dg, ns)
                     = RemovedByDigest(db, a, dg, ns)]_vars


---------------------------------------------------------------------------
(* PUT /messages: the destination a stamp is verified against *)

\* C34: a PUT /messages/A that stores its messages has no message of
\* another sender whose payload names a destination key that does not hash
\* to A
C34_StoredOnlyForNamedDestination ==
    [][resp'.op = "put" =>
         LET addr == resp'.args[1]
             ms == resp'.args[2]
         IN  \A i \in 1..Len(ms) :
                (/\ Hash160(ms[i].sender_pub_key) # addr
                 /\ Hash160(ms[i].serialized_payload.destination) # addr)
                    => /\ resp'.ret.status # 200
                       /\ msg_key(addr, resp'.args[3],
                                  Sha256(ms[i].serialized_payload),
                                  MESSAGE_NAMESPACE) \notin DOMAIN db' \ DOMAIN db]_vars


---------------------------------------------------------------------------
(* PUT /profiles: the key a stored profile is signed by *)

\* C35: a PUT /profiles/A whose wrapper carries a public key that does not
\* hash to A is rejected and leaves the store as it was
C35_ProfileSignedByAddressKey ==
    [][(/\ resp'.op = "request"
        /\ resp'.args[1].method = "PUT"
        /\ Len(resp'.args[1].path) = 2
        /\ resp'.args[1].path[1] = "profiles"
        /\ address_decode(resp'.args[1].path[2]) # None
        /\ resp'.args[1].body.kind = "AuthWrapper"
        /\ Hash160(resp'.args[1].body.value.public_key)
              # address_decode(resp'.args[1].path[2])[1])
          => /\ resp'.ret.status >= 400
             /\ db' = db]_vars

\* C36: when the broadcast of a POST /payments fails (the payment pays the
\* outputs the wallet holds for its subject, and the node does not accept
\* the transactions), the wallet entry of the subject is still present and
\* unchanged afterwards, so the same payment still passes the wallet match.
C36_FailedBroadcastKeepsInvoice ==
    [][PaymentStep =>
         LET payment == resp'.args[1].body.value
             A == payment.merchant_data
             held == /\ A # None
                     /\ A[1] \in DOMAIN HeldWallet.entries
                     /\ Pays(payment, HeldWallet.entries[A[1]].outputs)
         IN  (held /\ resp'.task.err # "") =>
                /\ A[1] \in DOMAIN wallet'.entries
                /\ wallet'.entries[A[1]] = HeldWallet.entries[A[1]]
                /\ recv_outputs(wallet', A[1],
                                Outputs(payment.transactions)).ok]_vars

\* the bus has a message of socket s in its mailbox
Queued(s, type) ==
    \E i \in 1..Len(ws.mailbox) :
       /\ ws.mailbox[i].type = type
       /\ ws.mailbox[i].actor_addr = s

\* the map of the bus holds socket s under some address
Registered(s) ==
    \E addr \in DOMAIN ws.ws_map : Position(ws.ws_map[addr], s) # 0

\* the actor of socket s has not begun to run
Unstarted(s) ==
    /\ s \in DOMAIN ws.sockets
    /\ ~ws.sockets[s].running
    /\ ~ws.sockets[s].stopped

StoredPairs(d, message) ==
    IF DigestOf(message) \in DOMAIN d.payloads
    THEN BurnPairs(StoredMessage(d, message).transactions)
    ELSE {}

\* C38: after an accepted PUT /messages the wrapper stored for the
\* payload_digest holds every distinct (txid, index) burn output accepted
\* for that digest so far, those stored before and those of the request,
\* and its burn_amount is their signed sum.
C38_BurnOutputsNeverLost ==
    [][(resp'.op = "put_message" /\ resp'.ret.err = "")
       => /\ StoredPairs(db', resp'.args[1])
               = StoredPairs(db, resp'.args[1])
                    \cup BurnPairs(resp'.args[1].transactions)
          /\ StoredMessage(db', resp'.args[1]).burn_amount
               = to_be_bytes(SignedSum(
                     StoredPairs(db, resp'.args[1])
                        \cup BurnPairs(resp'.args[1].transactions)))]_vars

\* the time bounds of a query: to_be_bytes covers them
QueryTimes == {0 - 1, 0, 1, 2, 3}

\* C39: get(topic, from, to) returns each stored message at most once,
\* also after the same payload_digest has been published more than once.
C39_GetReturnsMessageOnce ==
    \A topic \in GetTopics, from \in QueryTimes, to \in QueryTimes :
       Let(get_messages_to(db, topic, from, to).messages, LAMBDA messages :
           \A i, j \in 1..Len(messages) :
              messages[i].payload_digest = messages[j].payload_digest
                 => i = j)

---------------------------------------------------------------------------
(* lib/cashweb-keyserver-client/src/client/services.rs *)

\* header names and values are strings, here the sequences of their
\* characters; AUTHORIZATION is hyper's header name
AUTHORIZATION ==
    <<"a", "u", "t", "h", "o", "r", "i", "z", "a", "t", "i", "o", "n">>
CONTENT_TYPE ==
    <<"c", "o", "n", "t", "e", "n", "t", "-", "t", "y", "p", "e">>
POP == <<"P", "O", "P", " ">>

\* the closure of find: value.as_bytes()[..4] panics on a value shorter
\* than four bytes
IsPopHeader(header) ==
    IF header[1] # AUTHORIZATION THEN "no"
    ELSE IF Len(header[2]) < 4 THEN "panic"
    ELSE IF SubSeq(header[2], 1, 4) = POP THEN "yes"
    ELSE "no"

\* response.headers().into_iter().find(..): the first (name, value) the
\* closure accepts
RECURSIVE FindPopHeader(_, _)
FindPopHeader(headers, i) ==
    IF i > Len(headers) THEN [err |-> "MissingToken", item |-> <<>>]
    ELSE IF IsPopHeader(headers[i]) = "panic"
    THEN [err |-> "panic", item |-> <<>>]
    ELSE IF IsPopHeader(headers[i]) = "yes"
    THEN [err |-> "", item |-> headers[i]]
    ELSE FindPopHeader(headers, i + 1)

\* .ok_or(MissingToken)?.0.to_string(): the first component of the
\* (name, value) pair that was found
token_of(found) == found.item[1]

ClientError(err) == [err |-> err, package |-> <<>>]

\* Service<(Uri, GetRawAuthWrapper)>::call on the result of the inner
\* client
GetRawAuthWrapper_call(result) ==
    IF ~result.ok THEN ClientError("Service")
    ELSE IF result.status # 200 THEN ClientError("UnexpectedStatusCode")
    ELSE Let(FindPopHeader(result.headers, 1), LAMBDA found :
         IF found.err # "" THEN ClientError(found.err)
         ELSE [err |-> "",
               package |-> [token |-> token_of(found),
                            raw_auth_wrapper |-> result.body]])

\* AddressMetadata::decode of a payload; no bytes decode to the default
\* metadata
AddressMetadata_decode(payload) ==
    IF payload = EmptyPayload THEN [err |-> "", metadata |-> EmptyPayload]
    ELSE IF payload.destination = 0 THEN [err |-> "Decode", metadata |-> <<>>]
    ELSE [err |-> "", metadata |-> payload]

\* Service<(Uri, GetMetadata)>::call on the result of the inner client
GetMetadata_call(result) ==
    IF ~result.ok THEN ClientError("Service")
    ELSE IF result.status # 200 THEN ClientError("UnexpectedStatusCode")
    ELSE Let(FindPopHeader(result.headers, 1), LAMBDA found :
         IF found.err # "" THEN ClientError(found.err)
         ELSE IF result.body.kind # "AuthWrapper"
         THEN ClientError("AuthWrapperDecode")
         ELSE Let(parse(result.body.value), LAMBDA parsed :
         IF parsed.err # "" THEN ClientError("AuthWrapperParse")
         ELSE IF verify(parsed.parsed) # "Ok"
         THEN ClientError("AuthWrapperVerify")
         ELSE Let(AddressMetadata_decode(parsed.parsed.payload),
                  LAMBDA metadata :
         IF metadata.err # "" THEN ClientError("MetadataDecode")
         ELSE [err |-> "",
               package |-> [token |-> token_of(found),
                            public_key |-> parsed.parsed.public_key,
                            metadata |-> metadata.metadata,
                            raw_auth_wrapper |-> result.body]])))

---------------------------------------------------------------------------
(* The keyserver client on the responses of a keyserver *)

MaxHeaders == 2

HeaderValues ==
    {POP \o <<"t", "1">>, POP \o <<"t", "2">>, POP,
     <<"B", "a", "s", "i", "c", " ", "x">>, <<"P", "O", "P">>, <<>>}
HeaderItems == {AUTHORIZATION, CONTENT_TYPE} \X HeaderValues

ClientWrapper(public_key, signer, payload) ==
    [kind |-> "AuthWrapper",
     value |-> [public_key |-> public_key, scheme |-> ECDSA,
                signature |-> Sign(signer, Sha256(payload)),
                payload |-> payload, payload_digest |-> <<>>]]

\* bodies: a signed metadata, one signed by another key, one whose public
\* key is no point, one whose payload is no metadata, and bytes that are
\* no wrapper
ClientBodies ==
    {ClientWrapper(1, 1, ShortPayload), ClientWrapper(1, 2, ShortPayload),
     ClientWrapper(0, 1, ShortPayload),
     ClientWrapper(1, 1, [destination |-> 0, long |-> FALSE]),
     NoBody}

\* what the inner client returns: an error, or a response
ClientResults ==
    [ok : {TRUE}, status : {200, 404},
     headers : SeqsUpTo(HeaderItems, MaxHeaders), body : ClientBodies]
      \cup {[ok |-> FALSE, status |-> 0, headers |-> <<>>, body |-> NoBody]}

\* a GetRawAuthWrapper request is answered
GetRawAuthWrapper ==
    /\ nops < 1
    /\ \E result \in ClientResults :
          resp' = [op |-> "GetRawAuthWrapper", args |-> <<result>>,
                   ret |-> GetRawAuthWrapper_call(result)]
    /\ nops' = nops + 1
    /\ UNCHANGED <<db, node, msg_bus, feed_bus, wallet, ws, tasks>>

\* a GetMetadata request is answered
GetMetadata ==
    /\ nops < 1
    /\ \E result \in ClientResults :
          resp' = [op |-> "GetMetadata", args |-> <<result>>,
                   ret |-> GetMetadata_call(result)]
    /\ nops' = nops + 1
    /\ UNCHANGED <<db, node, msg_bus, feed_bus, wallet, ws, tasks>>

ClientNext == GetRawAuthWrapper \/ GetMetadata

SpecClient == StoreInit /\ [][ClientNext]_vars

\* the values of the Authorization headers of a response that start with
\* "POP "
PopValues(headers) ==
    {headers[i][2] : i \in {j \in 1..Len(headers) :
                               /\ headers[j][1] = AUTHORIZATION
                               /\ Len(headers[j][2]) >= 4
                               /\ SubSeq(headers[j][2], 1, 4) = POP}}

\* C40: the token of the package a GetMetadata or GetRawAuthWrapper
\* request returns is the value of an Authorization header of the response
\* that starts with "POP ".
C40_TokenIsPopHeaderValue ==
    (resp.op \in {"GetRawAuthWrapper", "GetMetadata"} /\ resp.ret.err = "")
       => resp.ret.package.token \in PopValues(resp.args[1].headers)

=============================================================================
